---- MODULE Spec2Model ----
(***************************************************************************)
(* A model of kaelvalen/velocity.                                          *)
(*                                                                         *)
(* Part 1: velocity/network/interrogator.py, class NetworkInterrogator.    *)
(*   search_parallel fans the first max_parallel queries out as asyncio    *)
(*   tasks; each task runs _execute_query, the ordered fallback chain      *)
(*   primary (Wikipedia summary) -> secondary (DuckDuckGo instant answer)  *)
(*   -> local knowledge base.  The event loop is single-threaded: the code *)
(*   between two awaits is one atomic step, and every action below is one  *)
(*   such step.                                                            *)
(* Part 2: velocity/evaluation/hypothesis.py, class HypothesisEvaluator.   *)
(* Part 3: velocity/core/nlp_engine.py, the text pipeline deep_clean ->    *)
(*   segment_sentences -> score_sentences -> extract_key_facts ->          *)
(*   compose_answer -> render_answer and the class AnswerEngine.  Texts    *)
(*   are sequences of characters.                                          *)
(***************************************************************************)
EXTENDS Integers, Sequences, FiniteSets, TLC

VARIABLES
    queries_executed,   \* NetworkInterrogator.queries_executed
    errors,             \* NetworkInterrogator.errors
    total_latency,      \* NetworkInterrogator.total_latency, in clock ticks
    calls,              \* the search_parallel invocations in the event loop
    hypotheses_evaluated,   \* HypothesisEvaluator.hypotheses_evaluated
    total_evaluation_time,  \* HypothesisEvaluator.total_evaluation_time, ticks
    cognitive,          \* the CognitiveState handed to evaluate_parallel
    evaluation,         \* the last evaluate_parallel call and what it returned
    cleaning,           \* a text and what successive deep_clean calls return
    ranking,            \* a score_sentences call, its result and its facts
    engine,             \* the AnswerEngine: its constructor arguments
    synthesis,          \* the synthesize calls on the engine and their answers
    rendering,          \* a render_answer call and the text it returns
    fluency,            \* an LLMSynthesizer.synthesize call and its outcome
    cache,              \* the QueryCache: max_size, ttl, _store, _hits, _misses
    monotonic,          \* time.monotonic(), in ticks
    threads,            \* the threads that call the QueryCache
    solo,               \* a QueryCache used by one caller, and its calls
    buffer,             \* a ConversationBuffer and its caller's calls
    simulated,          \* calls of _simulated_search_enhanced on query texts
    composed,           \* one call of compose_answer on scored sentences
    detected,           \* one call of _detect_query_type on a query
    session             \* a Session, its turns and its last build_context

netVars == <<queries_executed, errors, total_latency, calls>>
evalVars == <<hypotheses_evaluated, total_evaluation_time, cognitive,
              evaluation>>

textVars == <<cleaning, ranking, engine, synthesis, rendering, fluency,
             cache, monotonic, threads, solo, buffer, simulated, composed,
    detected, session>>

\* what the actions of one part leave alone
nonNetVars == <<evalVars, textVars>>
nonEvalVars == <<netVars, textVars>>
nonCleaningVars == <<netVars, evalVars, ranking, engine, synthesis,
    rendering, fluency, cache, monotonic, threads, solo, buffer, simulated,
    composed, detected, session>>
nonRankingVars == <<netVars, evalVars, cleaning, engine, synthesis,
    rendering, fluency, cache, monotonic, threads, solo, buffer, simulated,
    composed, detected, session>>
nonSynthesisVars == <<netVars, evalVars, cleaning, ranking, engine,
    rendering, fluency, cache, monotonic, threads, solo, buffer, simulated,
    composed, detected, session>>
nonRenderingVars == <<netVars, evalVars, cleaning, ranking, engine,
    synthesis, fluency, cache, monotonic, threads, solo, buffer, simulated,
    composed, detected, session>>

nonFluencyVars == <<netVars, evalVars, cleaning, ranking, engine,
    synthesis, rendering, cache, monotonic, threads, solo, buffer,
    simulated, composed, detected, session>>

nonCacheVars == <<netVars, evalVars, cleaning, ranking, engine, synthesis,
    rendering, fluency, solo, buffer, simulated, composed, detected,
    session>>

nonSoloVars == <<netVars, evalVars, cleaning, ranking, engine, synthesis,
    rendering, fluency, cache, monotonic, threads, buffer, simulated,
    composed, detected, session>>

nonBufferVars == <<netVars, evalVars, cleaning, ranking, engine, synthesis,
    rendering, fluency, cache, monotonic, threads, solo, simulated,
    composed, detected, session>>

nonSimulatedVars == <<netVars, evalVars, cleaning, ranking, engine,
    synthesis, rendering, fluency, cache, monotonic, threads, solo, buffer,
    composed, detected, session>>

nonComposedVars == <<netVars, evalVars, cleaning, ranking, engine,
    synthesis, rendering, fluency, cache, monotonic, threads, solo, buffer, simulated,
    detected, session>>

nonDetectedVars == <<netVars, evalVars, cleaning, ranking, engine,
    synthesis, rendering, fluency, cache, monotonic, threads, solo, buffer, simulated, composed,
    session>>

nonSessionVars == <<netVars, evalVars, cleaning, ranking, engine,
    synthesis, rendering, fluency, cache, monotonic, threads, solo, buffer, simulated, composed, detected>>

vars == <<queries_executed, errors, total_latency, calls,
          hypotheses_evaluated, total_evaluation_time, cognitive, evaluation,
          cleaning, ranking, engine, synthesis, rendering, fluency,
          cache, monotonic, threads, solo, buffer, simulated, composed,
    detected, session>>

----------------------------------------------------------------------------
(* Bounds of the model.                                                    *)

\* longest query list handed to one search_parallel call
MaxQueries == 3
\* cap on the number of tasks dispatched over the life of one interrogator
MaxExecuted == 3
\* longest sentence list handed to score_sentences
MaxSentences == 3
\* largest max_facts handed to extract_key_facts
MaxFacts == 2
\* most synthesize calls on one AnswerEngine
MaxCalls == 3
\* most JSON documents or lines in the body of a provider's response
MaxLines == 2
\* threads that call the QueryCache, and most calls of one thread
MaxThreads == 2
MaxOps == 2
\* largest max_size of a QueryCache
MaxSize == 1
\* last tick of time.monotonic()
MaxTime == 2
\* most calls of the one caller of a QueryCache
MaxSoloCalls == 4
\* largest max_size of the one caller's QueryCache
MaxSoloSize == 2
\* most calls of the caller of a ConversationBuffer
MaxBufferCalls == 4
\* largest max_sessions of the ConversationBuffer
MaxBufferSessions == 2
\* largest max_turns_per_session of the ConversationBuffer
MaxBufferTurns == 3
\* most calls of the local-knowledge fallback on query texts
MaxLookups == 2
\* most words of a query whose type is detected
MaxWords == 3
\* most turns of a Session used on its own
MaxSessionTurns == 3
\* most turns added to the one session of a ConversationBuffer, and its
\* largest max_turns_per_session
MaxLongCalls == 6
MaxLongTurns == 5
\* longest text handed to deep_clean
MaxTextLen == 5
\* deep_clean is applied to a text and then to its own outputs, this often
MaxCleanings == 2
\* NetworkInterrogator.max_parallel, a constructor argument (default 5)
max_parallel == 2
\* longest hypothesis list handed to one evaluate_parallel call
MaxHypotheses == 2
\* cap on HypothesisEvaluator.hypotheses_evaluated
MaxEvaluated == 2
\* most topic buckets of a CognitiveState
MaxTopics == 2

\* the invocations of search_parallel on the one interrogator, numbered in
\* the order in which they are made; they may overlap in the event loop
CallIds == {1, 2}
\* elapsed wall-clock ticks one gather may measure
Latencies == {0, 1}

----------------------------------------------------------------------------
(* Values.                                                                 *)

\* a list element that is not a str (Python does not enforce List[str])
NoneQuery == "<None>"
QueryValues == {"python", NoneQuery}
IsStr(q) == q # NoneQuery

Min(a, b) == IF a <= b THEN a ELSE b
Max(a, b) == IF a >= b THEN a ELSE b

\* the dict a source returns on success
SuccessRecord(q, src) ==
    [success |-> TRUE, query |-> q, source |-> src, error |-> ""]
\* the dict of _execute_query's outer handler
FailureRecord(q, e) ==
    [success |-> FALSE, query |-> q, source |-> "", error |-> e]
NoRecord == [success |-> FALSE, query |-> "", source |-> "", error |-> "-"]

\* What the network can answer to one GET: the request times out, the
\* connection fails, or an HTTP response arrives with a status and a body
\* whose abstract has some length.
Responses ==
    {[kind |-> "timeout", status |-> 0, len |-> 0],
     [kind |-> "conn_error", status |-> 0, len |-> 0]}
    \cup [kind : {"http"}, status : {200}, len : {0, 50, 51}]
    \cup {[kind |-> "http", status |-> 404, len |-> 0]}

\* the fallback chain of _execute_query, in the order of the code
Sources == <<"wikipedia", "duckduckgo", "knowledge_base">>

----------------------------------------------------------------------------
(* The three sources.  Each returns [raised, out, rec]: whether the call   *)
(* ended in an exception, how the attempt ended ("ok", or the exception:   *)
(* "timeout" for asyncio.TimeoutError, "raise" for any other) and the dict *)
(* it returned.                                                            *)

Raised(kind) == [raised |-> TRUE, out |-> kind, rec |-> NoRecord]
Gave(rec) == [raised |-> FALSE, out |-> "ok", rec |-> rec]

\* _query_wikipedia_simple: success requires status 200 and a non-empty
\* extract; an error status and an empty extract end in the same raise.
QueryWikipediaSimple(q, resp) ==
    IF ~IsStr(q) THEN Raised("raise")              \* query.replace(...)
    ELSE IF resp.kind = "timeout" THEN Raised("timeout")
    ELSE IF resp.kind = "conn_error" THEN Raised("raise")
    ELSE IF resp.status = 200 /\ resp.len > 0
         THEN Gave(SuccessRecord(q, "wikipedia"))
    ELSE Raised("raise")                           \* line 307

\* _query_duckduckgo_instant: success requires status 200 and an abstract
\* of more than 50 characters.
QueryDuckduckgoInstant(q, resp) ==
    IF ~IsStr(q) THEN Raised("raise")
    ELSE IF resp.kind = "timeout" THEN Raised("timeout")
    ELSE IF resp.kind = "conn_error" THEN Raised("raise")
    ELSE IF resp.status = 200 /\ resp.len > 50
         THEN Gave(SuccessRecord(q, "duckduckgo"))
    ELSE Raised("raise")                           \* line 346

\* a fallback that can fail, as a lookup of a missing table entry would
SimulatedSearchEnhancedRaises(q) == Raised("raise")

\* _simulated_search_enhanced, after its sleep: it builds its record from
\* the query with str methods only, so it raises exactly for a non-str.
SimulatedSearchEnhanced(q) ==
    IF IsStr(q) THEN Gave(SuccessRecord(q, "knowledge_base"))
    ELSE Raised("raise")

----------------------------------------------------------------------------
(* One task of the gather: the coroutine _execute_query(query).            *)
(*   pc       where the coroutine is suspended: "start" (created, not yet  *)
(*            run), a source name (awaiting that source), or "done"        *)
(*   attempts the source attempts made so far, in order, each with its     *)
(*            outcome ("pending" while awaited)                            *)
(*   state    "running", "returned" (a dict) or "raised" (an exception     *)
(*            left the coroutine)                                          *)

NewTask(q) ==
    [query |-> q, pc |-> "start", attempts |-> << >>,
     state |-> "running", result |-> NoRecord]

Attempt(src, out) == [src |-> src, out |-> out]

\* the awaited attempt ends with outcome out
Close(t, out) ==
    [t EXCEPT !.attempts[Len(t.attempts)].out = out]

\* the coroutine suspends on source src
Await(t, src) ==
    [t EXCEPT !.pc = src,
              !.attempts = Append(t.attempts, Attempt(src, "pending"))]

\* return rec
Returns(t, rec) ==
    [t EXCEPT !.pc = "done", !.state = "returned", !.result = rec]

\* an exception leaves the coroutine
Escapes(t) ==
    [t EXCEPT !.pc = "done", !.state = "raised"]

\* lines 111-117: the task's first run, up to its first suspension.  A
\* non-str query raises inside both source functions before any request
\* is made; both handlers swallow it and the fallback suspends in its sleep.
ExecStart(t) ==
    IF IsStr(t.query) THEN Await(t, "wikipedia")
    ELSE Await(Close(Await(Close(Await(t, "wikipedia"), "raise"),
                           "duckduckgo"), "raise"),
               "knowledge_base")

\* the primary's record is not returned: the chain goes on after a success
ResumePrimaryNoReturn(t, resp) ==
    LET r == QueryWikipediaSimple(t.query, resp) IN
    Await(Close(t, r.out), "duckduckgo")

\* lines 116-125: the primary answered
ResumePrimary(t, resp) ==
    LET r == QueryWikipediaSimple(t.query, resp) IN
    IF ~r.raised /\ r.rec.success
    THEN Returns(Close(t, r.out), r.rec)
    ELSE Await(Close(t, r.out), "duckduckgo")

\* a handler that does not catch asyncio.TimeoutError
ResumeSecondaryTimeoutEscapes(t, resp) ==
    LET r == QueryDuckduckgoInstant(t.query, resp) IN
    IF ~r.raised /\ r.rec.success
    THEN Returns(Close(t, r.out), r.rec)
    ELSE IF r.out = "timeout" THEN Escapes(Close(t, r.out))
    ELSE Await(Close(t, r.out), "knowledge_base")

\* lines 124-132: the secondary answered
ResumeSecondary(t, resp) ==
    LET r == QueryDuckduckgoInstant(t.query, resp) IN
    IF ~r.raised /\ r.rec.success
    THEN Returns(Close(t, r.out), r.rec)
    ELSE Await(Close(t, r.out), "knowledge_base")

\* lines 132-140: the fallback woke up; an exception of the fallback is
\* caught by the outer handler, which returns the failure dict.
ResumeFallback(t) ==
    LET r == SimulatedSearchEnhanced(t.query) IN
    IF r.raised
    THEN Returns(Close(t, r.out), FailureRecord(t.query, "error"))
    ELSE Returns(Close(t, r.out), r.rec)

----------------------------------------------------------------------------
(* search_parallel.                                                        *)

\* no slice: every query becomes a task
DispatchedAll(queries) == queries

\* lines 72-75: queries[:self.max_parallel]
Dispatched(queries) == SubSeq(queries, 1, Min(Len(queries), max_parallel))

\* a filter that also skips failure dicts, without counting them
RECURSIVE ProcessResultsSkipsFailed(_)
ProcessResultsSkipsFailed(tasks) ==
    IF tasks = << >> THEN [records |-> << >>, nerr |-> 0]
    ELSE LET rest == ProcessResultsSkipsFailed(Tail(tasks))
             t == Head(tasks)
         IN  IF t.state = "raised"
             THEN [records |-> rest.records, nerr |-> rest.nerr + 1]
             ELSE IF ~t.result.success THEN rest
             ELSE [records |-> <<t.result>> \o rest.records,
                   nerr |-> rest.nerr]

\* lines 86-92: results of the gather, in task order; an exception is
\* counted and skipped, anything else is appended.
RECURSIVE ProcessResults(_)
ProcessResults(tasks) ==
    IF tasks = << >> THEN [records |-> << >>, nerr |-> 0]
    ELSE LET rest == ProcessResults(Tail(tasks))
             t == Head(tasks)
         IN  IF t.state = "raised"
             THEN [records |-> rest.records, nerr |-> rest.nerr + 1]
             ELSE [records |-> <<t.result>> \o rest.records,
                   nerr |-> rest.nerr]

IdleCall ==
    [pc |-> "idle", queries |-> << >>, tasks |-> << >>,
     returned |-> << >>, nerr |-> 0]

RECURSIVE SumLen(_)
SumLen(S) ==
    IF S = {} THEN 0
    ELSE LET c == CHOOSE x \in S : TRUE
         IN  Len(calls[c].tasks) + SumLen(S \ {c})

\* tasks dispatched so far by all calls
TotalDispatched == SumLen(CallIds)

QueryLists == UNION {[1..n -> QueryValues] : n \in 0..MaxQueries}

\* the gather's result list: the coroutines are gone, what each returned
\* or raised is kept
Collected(tasks) ==
    [i \in 1..Len(tasks) |-> [tasks[i] EXCEPT !.attempts = << >>]]

\* lines 78-94 once the gather has finished: measure, count, filter, return
Finish(c, lat) ==
    LET p == ProcessResults(calls[c].tasks) IN
    /\ total_latency' = total_latency + lat
    /\ errors' = errors + p.nerr
    /\ calls' = [calls EXCEPT ![c].pc = "returned",
                              ![c].tasks = Collected(@),
                              ![c].returned = p.records,
                              ![c].nerr = p.nerr]

\* lines 69-79: a caller invokes search_parallel(queries); the tasks are
\* created and the caller suspends in the gather.  A gather of no task is
\* already complete, so the call runs to its return without suspending.
SearchParallel(c, queries, lat) ==
    /\ calls[c].pc = "idle"
    /\ \A b \in CallIds : b < c => calls[b].pc # "idle"
    /\ TotalDispatched + Len(Dispatched(queries)) <= MaxExecuted
    /\ LET d == Dispatched(queries) IN
       IF d = << >>
       THEN /\ total_latency' = total_latency + lat
            /\ calls' = [calls EXCEPT ![c].pc = "returned",
                                      ![c].queries = queries]
            /\ UNCHANGED <<queries_executed, errors>>
            /\ UNCHANGED nonNetVars
       ELSE /\ calls' = [calls EXCEPT
                            ![c].pc = "gathering",
                            ![c].queries = queries,
                            ![c].tasks = [i \in 1..Len(d) |-> NewTask(d[i])]]
            /\ UNCHANGED <<queries_executed, errors, total_latency>>
            /\ UNCHANGED nonNetVars

\* the tasks of call c that have run line 111
Started(c) ==
    Cardinality({i \in 1..Len(calls[c].tasks) : calls[c].tasks[i].pc # "start"})

\* the counter is kept per batch instead of per interrogator
TaskStartPerBatchCount(c, i) ==
    /\ calls[c].pc = "gathering"
    /\ i \in 1..Len(calls[c].tasks)
    /\ calls[c].tasks[i].pc = "start"
    /\ queries_executed' = Started(c) + 1
    /\ calls' = [calls EXCEPT ![c].tasks[i] = ExecStart(@)]
    /\ UNCHANGED <<errors, total_latency>>
    /\ UNCHANGED nonNetVars

\* the coroutines are awaited one after the other instead of gathered
TaskStartSequential(c, i) ==
    /\ calls[c].pc = "gathering"
    /\ i \in 1..Len(calls[c].tasks)
    /\ calls[c].tasks[i].pc = "start"
    /\ \A j \in 1..(i - 1) : calls[c].tasks[j].pc = "done"
    /\ queries_executed' = queries_executed + 1
    /\ calls' = [calls EXCEPT ![c].tasks[i] = ExecStart(@)]
    /\ UNCHANGED <<errors, total_latency>>
    /\ UNCHANGED nonNetVars

\* line 111 and the run to the first await
TaskStart(c, i) ==
    /\ calls[c].pc = "gathering"
    /\ i \in 1..Len(calls[c].tasks)
    /\ calls[c].tasks[i].pc = "start"
    /\ queries_executed' = queries_executed + 1
    /\ calls' = [calls EXCEPT ![c].tasks[i] = ExecStart(@)]
    /\ UNCHANGED <<errors, total_latency>>
    /\ UNCHANGED nonNetVars

\* the primary's request completes (answer, failure or timeout)
PrimaryResponse(c, i, resp) ==
    /\ calls[c].pc = "gathering"
    /\ i \in 1..Len(calls[c].tasks)
    /\ calls[c].tasks[i].pc = "wikipedia"
    /\ calls' = [calls EXCEPT ![c].tasks[i] = ResumePrimary(@, resp)]
    /\ UNCHANGED <<queries_executed, errors, total_latency>>
    /\ UNCHANGED nonNetVars

\* the secondary's request completes
SecondaryResponse(c, i, resp) ==
    /\ calls[c].pc = "gathering"
    /\ i \in 1..Len(calls[c].tasks)
    /\ calls[c].tasks[i].pc = "duckduckgo"
    /\ calls' = [calls EXCEPT ![c].tasks[i] = ResumeSecondary(@, resp)]
    /\ UNCHANGED <<queries_executed, errors, total_latency>>
    /\ UNCHANGED nonNetVars

\* the fallback's asyncio.sleep(0.3) is over
FallbackWake(c, i) ==
    /\ calls[c].pc = "gathering"
    /\ i \in 1..Len(calls[c].tasks)
    /\ calls[c].tasks[i].pc = "knowledge_base"
    /\ calls' = [calls EXCEPT ![c].tasks[i] = ResumeFallback(@)]
    /\ UNCHANGED <<queries_executed, errors, total_latency>>
    /\ UNCHANGED nonNetVars

\* every task of the gather is done: search_parallel resumes and returns
GatherDone(c, lat) ==
    /\ calls[c].pc = "gathering"
    /\ \A i \in 1..Len(calls[c].tasks) : calls[c].tasks[i].pc = "done"
    /\ Finish(c, lat)
    /\ UNCHANGED queries_executed
    /\ UNCHANGED nonNetVars

TaskStep(c, i) ==
    \/ TaskStart(c, i)
    \/ \E resp \in Responses : PrimaryResponse(c, i, resp)
    \/ \E resp \in Responses : SecondaryResponse(c, i, resp)
    \/ FallbackWake(c, i)

\* round(a / b, digits) in units of 10^-digits with scale = 10^digits, for
\* a >= 0 and b > 0: the nearest integer to a * scale / b, a tie going to
\* the even one
RoundedDiv(a, b, scale) ==
    IF 2 * ((a * scale) % b) > b THEN (a * scale) \div b + 1
    ELSE IF 2 * ((a * scale) % b) < b THEN (a * scale) \div b
    ELSE (a * scale) \div b + (((a * scale) \div b) % 2)

\* a get_stats that reports full success when there was no query
GetStatsOptimistic ==
    [queries_executed |-> queries_executed,
     total_latency |-> total_latency * 100,
     avg_latency |-> IF queries_executed > 0
                     THEN RoundedDiv(total_latency, queries_executed, 1000)
                     ELSE 0,
     errors |-> errors,
     success_rate |-> IF queries_executed > 0
                      THEN [numerator |-> queries_executed - errors,
                            denominator |-> queries_executed]
                      ELSE [numerator |-> 1, denominator |-> 1]]

\* get_stats, lines 425-443: total_latency in hundredths, avg_latency in
\* thousandths, success_rate as the fraction numerator / denominator (0.0
\* is 0 / 1)
GetStats ==
    [queries_executed |-> queries_executed,
     total_latency |-> total_latency * 100,
     avg_latency |-> IF queries_executed > 0
                     THEN RoundedDiv(total_latency, queries_executed, 1000)
                     ELSE 0,
     errors |-> errors,
     success_rate |-> IF queries_executed > 0
                      THEN [numerator |-> queries_executed - errors,
                            denominator |-> queries_executed]
                      ELSE [numerator |-> 0, denominator |-> 1]]

----------------------------------------------------------------------------
(* Part 2: HypothesisEvaluator.                                            *)
(*                                                                         *)
(* A text is a sequence of characters.  A score is an integer number of    *)
(* units of 1/ScoreOne, in which every term of _score_hypothesis is exact  *)
(* for the texts of the model; a confidence or a severity is given in      *)
(* tenths.                                                                 *)

\* 1.0 in score units: 200 for the length term, 6 for the Jaccard ratios
ScoreOne == 200 * 6

Whitespace == {" ", "\t", "\n"}

\* the letters a-z and A-Z
LowerAlphabet ==
    <<"a", "b", "c", "d", "e", "f", "g", "h", "i", "j", "k", "l", "m",
      "n", "o", "p", "q", "r", "s", "t", "u", "v", "w", "x", "y", "z">>
UpperAlphabet ==
    <<"A", "B", "C", "D", "E", "F", "G", "H", "I", "J", "K", "L", "M",
      "N", "O", "P", "Q", "R", "S", "T", "U", "V", "W", "X", "Y", "Z">>
LowerLetters == {LowerAlphabet[k] : k \in 1..Len(LowerAlphabet)}
UpperLetters == {UpperAlphabet[k] : k \in 1..Len(UpperAlphabet)}
Letters == LowerLetters \cup UpperLetters

\* str.lower() on one character
Lower(ch) ==
    IF ch \in UpperLetters
    THEN LowerAlphabet[CHOOSE k \in 1..Len(UpperAlphabet) :
                          UpperAlphabet[k] = ch]
    ELSE ch

\* str.upper() on one character
Upper(ch) ==
    IF ch \in LowerLetters
    THEN UpperAlphabet[CHOOSE k \in 1..Len(LowerAlphabet) :
                          LowerAlphabet[k] = ch]
    ELSE ch

LowerText(text) == << >> \o [k \in 1..Len(text) |-> Lower(text[k])]

\* the least number of a set of numbers
Least(S) == CHOOSE x \in S : \A y \in S : x <= y

\* the numbers of a set in increasing order
SortedSeq(S) ==
    [i \in 1..Cardinality(S) |->
        CHOOSE x \in S : Cardinality({y \in S : y < x}) = i - 1]

\* the position of the last character of the word that holds position k
WordEnd(text, k) ==
    Least({j \in k..Len(text) : j = Len(text) \/ text[j + 1] \in Whitespace})

\* str.split(): the maximal runs of non-whitespace characters, in order
Split(text) ==
    LET starts == SortedSeq({k \in 1..Len(text) :
                      /\ text[k] \notin Whitespace
                      /\ (k = 1 \/ text[k - 1] \in Whitespace)})
    IN  [i \in 1..Len(starts) |->
            SubSeq(text, starts[i], WordEnd(text, starts[i]))]

\* set(text.lower().split())
WordSet(text) ==
    LET w == Split(LowerText(text)) IN {w[k] : k \in 1..Len(w)}

\* claim in hypothesis: substring containment
IsSubstring(x, y) ==
    \E k \in 0..(Len(y) - Len(x)) : SubSeq(y, k + 1, k + Len(x)) = x

\* _text_overlap as the pair (intersection, union); the ratio is 0 when
\* either word set is empty
TextOverlap(text1, text2) ==
    LET words1 == WordSet(text1)
        words2 == WordSet(text2)
    IN  IF words1 = {} \/ words2 = {} THEN [num |-> 0, den |-> 1]
        ELSE [num |-> Cardinality(words1 \cap words2),
              den |-> Cardinality(words1 \cup words2)]

\* line 91: min(1.0, len(hypothesis) / 200)
BaseScore(hypothesis) ==
    Min(ScoreOne, Len(hypothesis) * (ScoreOne \div 200))

\* line 98 for one evidence: overlap * confidence * 0.1
EvidenceTerm(hypothesis, evidence) ==
    LET o == TextOverlap(hypothesis, evidence.content) IN
    (o.num * evidence.confidence * (ScoreOne \div 100)) \div o.den

\* lines 95-98 over one topic's evidence list
RECURSIVE BucketSupport(_, _)
BucketSupport(hypothesis, evidence_list) ==
    IF evidence_list = << >> THEN 0
    ELSE EvidenceTerm(hypothesis, Head(evidence_list))
         + BucketSupport(hypothesis, Tail(evidence_list))

\* lines 94-98 over state.knowledge
RECURSIVE EvidenceSupport(_, _)
EvidenceSupport(hypothesis, knowledge) ==
    IF knowledge = << >> THEN 0
    ELSE BucketSupport(hypothesis, Head(knowledge))
         + EvidenceSupport(hypothesis, Tail(knowledge))

\* lines 101-103 over state.contradictions: severity * 0.2 for every
\* contradiction one of whose claims occurs in the hypothesis
RECURSIVE ContradictionPenalty(_, _)
ContradictionPenalty(hypothesis, contradictions) ==
    IF contradictions = << >> THEN 0
    ELSE LET c == Head(contradictions) IN
         (IF IsSubstring(c.claim_a, hypothesis)
             \/ IsSubstring(c.claim_b, hypothesis)
          THEN c.severity * ((2 * ScoreOne) \div 100) ELSE 0)
         + ContradictionPenalty(hypothesis, Tail(contradictions))

\* lines 88-103: the score before it is normalized
RawScore(hypothesis, state) ==
    BaseScore(hypothesis)
    + EvidenceSupport(hypothesis, state.knowledge)
    - ContradictionPenalty(hypothesis, state.contradictions)

\* a score that is only capped from above
ScoreHypothesisNoFloor(hypothesis, state) ==
    Min(ScoreOne, RawScore(hypothesis, state))

\* _score_hypothesis: line 106, max(0.0, min(1.0, score))
ScoreHypothesis(hypothesis, state) ==
    Max(0, Min(ScoreOne, RawScore(hypothesis, state)))

\* results are prepended instead of appended
RECURSIVE ScoreAllReversed(_, _)
ScoreAllReversed(hypotheses, state) ==
    IF hypotheses = << >> THEN << >>
    ELSE ScoreAllReversed(Tail(hypotheses), state)
         \o <<[hypothesis |-> Head(hypotheses),
               score |-> ScoreHypothesis(Head(hypotheses), state),
               method |-> "cpu"]>>

\* lines 58-65: the loop of evaluate_parallel
RECURSIVE ScoreAll(_, _)
ScoreAll(hypotheses, state) ==
    IF hypotheses = << >> THEN << >>
    ELSE <<[hypothesis |-> Head(hypotheses),
            score |-> ScoreHypothesis(Head(hypotheses), state),
            method |-> "cpu"]>>
         \o ScoreAll(Tail(hypotheses), state)

\* the texts of the model: the empty text, one word, two words
HypothesisTexts ==
    {<< >>, <<"a">>, <<"B">>, <<"a", " ", "B">>, <<"B", " ", " ", "c">>}
EvidenceTexts == {<<"b", " ", "c">>}
\* confidences and severities in tenths: below 0, inside [0,1], far above 1
Confidences == {-10, 5, 200}
Severities == {-10, 60}

Evidence == [content : EvidenceTexts, confidence : Confidences]
Contradiction ==
    [claim_a : {<<"c", " ", "c">>}, claim_b : {<<"a">>},
     severity : Severities]

SeqsUpTo(S, n) == UNION {[1..k -> S] : k \in 0..n}

\* a CognitiveState: topic buckets of evidence, and contradictions
CognitiveStates ==
    [knowledge : SeqsUpTo(SeqsUpTo(Evidence, 1), MaxTopics),
     contradictions : SeqsUpTo(Contradiction, 1)]

EmptyState == [knowledge |-> << >>, contradictions |-> << >>]

HypothesisLists == SeqsUpTo(HypothesisTexts, MaxHypotheses)

NoEvaluation ==
    [pc |-> "idle", hypotheses |-> << >>, results |-> << >>,
     before |-> [evaluated |-> 0, time |-> 0]]

\* evaluate_parallel(hypotheses, state), taking elapsed ticks
EvaluateParallel(hypotheses, elapsed) ==
    /\ hypotheses_evaluated + Len(hypotheses) <= MaxEvaluated
    /\ IF hypotheses = << >>
       THEN /\ evaluation' =
                 [pc |-> "returned", hypotheses |-> hypotheses,
                  results |-> << >>,
                  before |-> [evaluated |-> hypotheses_evaluated,
                              time |-> total_evaluation_time]]
            /\ UNCHANGED <<hypotheses_evaluated, total_evaluation_time>>
       ELSE /\ evaluation' =
                 [pc |-> "returned", hypotheses |-> hypotheses,
                  results |-> ScoreAll(hypotheses, cognitive),
                  before |-> [evaluated |-> hypotheses_evaluated,
                              time |-> total_evaluation_time]]
            /\ total_evaluation_time' = total_evaluation_time + elapsed
            /\ hypotheses_evaluated' = hypotheses_evaluated + Len(hypotheses)
    /\ UNCHANGED cognitive
    /\ UNCHANGED nonEvalVars

----------------------------------------------------------------------------
(* Part 3a: nlp_engine.deep_clean.                                         *)

\* the character classes of the patterns, on the characters of the model
Digits == {"0", "1", "2", "3", "4", "5", "6", "7", "8", "9"}
\* [,;:!?.] of line 139
Punctuation == {",", ";", ":", "!", "?", "."}
\* line 152: a line shorter than this is kept only if it ends with a period
MinLineLen == 15
\* line 90: the layout bullets and separators that are ASCII characters
Bullets == {"|"}
\* line 131: the words split off the end of a longer word, in pattern order
GluedWords ==
    <<<<"n", "o", "n">>,
      <<"t", "h", "e">>,
      <<"a", "n", "d">>,
      <<"f", "o", "r">>,
      <<"w", "i", "t", "h">>,
      <<"f", "r", "o", "m">>,
      <<"i", "n", "t", "o">>,
      <<"t", "h", "a", "t">>,
      <<"t", "h", "i", "s">>,
      <<"a", "r", "e">>,
      <<"w", "a", "s">>,
      <<"h", "a", "s">>,
      <<"h", "a", "d">>,
      <<"c", "a", "n">>,
      <<"w", "i", "l", "l">>,
      <<"n", "o", "t">>>>
\* lines 93-99: _BOILERPLATE_MARKERS
BoilerplateMarkers ==
    {<<"a", "c", "c", "e", "p", "t", " ", "a", "l", "l">>,
     <<"a", "d", "v", "e", "r", "t", "i", "s", "e", "m", "e", "n", "t">>,
     <<"c", "l", "i", "c", "k", " ", "h", "e", "r", "e">>,
     <<"c", "l", "o", "s", "e", " ", "t", "h", "i", "s">>,
     <<"c", "o", "o", "k", "i", "e">>,
     <<"c", "o", "p", "y", "r", "i", "g", "h", "t">>,
     <<"d", "i", "s", "m", "i", "s", "s">>,
     <<"d", "o", "w", "n", "l", "o", "a", "d", " ", "a", "p", "p">>,
     <<"i", "n", "s", "t", "a", "l", "l", " ", "n", "o", "w">>,
     <<"l", "o", "a", "d", "i", "n", "g">>,
     <<"n", "e", "w", "s", "l", "e", "t", "t", "e", "r">>,
     <<"p", "r", "i", "v", "a", "c", "y">>,
     <<"r", "e", "a", "d", " ", "m", "o", "r", "e">>,
     <<"s", "h", "o", "w", " ", "m", "o", "r", "e">>,
     <<"s", "i", "g", "n", " ", "i", "n">>,
     <<"s", "i", "g", "n", " ", "u", "p">>,
     <<"s", "k", "i", "p", " ", "t", "o", " ", "c", "o", "n", "t", "e",
       "n", "t">>,
     <<"s", "u", "b", "s", "c", "r", "i", "b", "e">>,
     <<"t", "e", "r", "m", "s", " ", "o", "f", " ", "u", "s", "e">>,
     <<"t", "o", "g", "g", "l", "e", " ", "n", "a", "v", "i", "g", "a",
       "t", "i", "o", "n">>}

\* the character at position k, "" outside the text
At(text, k) == IF k >= 1 /\ k <= Len(text) THEN text[k] ELSE ""

\* the length of the run of characters of S that starts at position k
RECURSIVE Run(_, _, _)
Run(text, k, S) ==
    IF k >= 1 /\ k <= Len(text) /\ text[k] \in S
    THEN 1 + Run(text, k + 1, S) ELSE 0

\* the length of the run of characters of S that ends at position k
RECURSIVE RunBack(_, _, _)
RunBack(text, k, S) ==
    IF k >= 1 /\ k <= Len(text) /\ text[k] \in S
    THEN 1 + RunBack(text, k - 1, S) ELSE 0

\* A pattern scans a text from the left: where a match starts (len[k] > 0 is
\* its length) the scan goes on behind the match, elsewhere at the next
\* position, so matches do not overlap.  ScanRange gives the starts of the
\* matches in lo..hi, in order, of a scan that enters the range at s, and
\* the position at which the scan leaves the range.
RECURSIVE ScanRange(_, _, _, _)
ScanRange(len, lo, hi, s) ==
    IF s > hi \/ lo > hi THEN <<<< >>, s>>
    ELSE IF lo = hi
    THEN (IF len[lo] > 0 THEN <<<<lo>>, lo + len[lo]>>
          ELSE <<<< >>, lo + 1>>)
    ELSE LET mid == (lo + hi) \div 2
             left == ScanRange(len, lo, mid, s)
             right == ScanRange(len, mid + 1, hi, left[2])
         IN  <<left[1] \o right[1], right[2]>>

\* the starts of the matches in a text of n characters
Matches(len, n) == ScanRange(len, 1, n, 1)[1]

\* the pieces of the text between the matches
PiecesBetween(text, starts, len) ==
    [i \in 1..(Len(starts) + 1) |->
        SubSeq(text,
               IF i = 1 THEN 1 ELSE starts[i - 1] + len[starts[i - 1]],
               IF i = Len(starts) + 1 THEN Len(text) ELSE starts[i] - 1)]

\* the concatenation of parts[lo], ..., parts[hi]
RECURSIVE ConcatRange(_, _, _)
ConcatRange(parts, lo, hi) ==
    IF lo > hi THEN << >>
    ELSE IF lo = hi THEN parts[lo]
    ELSE ConcatRange(parts, lo, (lo + hi) \div 2)
         \o ConcatRange(parts, (lo + hi) \div 2 + 1, hi)

\* pattern.sub(repl, text): every match is replaced by rep[k], k its start;
\* what a replacement produces is not scanned again
ReSub(text, len, rep) ==
    IF text = << >> THEN << >>
    ELSE LET starts == Matches(len, Len(text))
             kept == PiecesBetween(text, starts, len)
         IN  ConcatRange([i \in 1..(2 * Len(starts) + 1) |->
                             IF i % 2 = 1 THEN kept[(i + 1) \div 2]
                             ELSE rep[starts[i \div 2]]],
                         1, 2 * Len(starts) + 1)

\* the text holds lit at position k
StartsWith(text, k, lit) ==
    /\ k >= 1
    /\ k + Len(lit) - 1 <= Len(text)
    /\ SubSeq(text, k, k + Len(lit) - 1) = lit

\* the length of the match of https?:// or www\. that starts at k, or 0
UrlPrefix(text, k) ==
    IF StartsWith(text, k, <<"h", "t", "t", "p", "s", ":", "/", "/">>) THEN 8
    ELSE IF StartsWith(text, k, <<"h", "t", "t", "p", ":", "/", "/">>) THEN 7
    ELSE IF StartsWith(text, k, <<"w", "w", "w", ".">>) THEN 4
    ELSE 0

\* line 112: _RE_URL https?://\S+|www\.\S+ removed
RemoveUrls(text) ==
    ReSub(text,
          [k \in 1..Len(text) |->
              LET p == UrlPrefix(text, k)
                  rest == Len(text) - (k + p) + 1
                  ws == {j \in (k + p)..Len(text) : text[j] \in Whitespace}
                  n == IF ws = {} THEN rest
                       ELSE (CHOOSE j \in ws : \A i \in ws : j <= i) - (k + p)
              IN  IF p > 0 /\ n >= 1 THEN p + n ELSE 0],
          [k \in 1..Len(text) |-> << >>])

\* line 115: _RE_REF \[\d+\] removed
RemoveRefs(text) ==
    ReSub(text,
          [k \in 1..Len(text) |->
              LET d == Run(text, k + 1, Digits) IN
              IF text[k] = "[" /\ d >= 1 /\ At(text, k + 1 + d) = "]"
              THEN d + 2 ELSE 0],
          [k \in 1..Len(text) |-> << >>])

\* line 118: _RE_PARENS_EMPTY \(\s*\) removed
RemoveEmptyParens(text) ==
    ReSub(text,
          [k \in 1..Len(text) |->
              LET w == Run(text, k + 1, Whitespace) IN
              IF text[k] = "(" /\ At(text, k + 1 + w) = ")"
              THEN w + 2 ELSE 0],
          [k \in 1..Len(text) |-> << >>])

\* line 121: _RE_BULLETS, a run of bullets -> period and space
ReplaceBullets(text) ==
    ReSub(text,
          [k \in 1..Len(text) |-> Run(text, k, Bullets)],
          [k \in 1..Len(text) |-> <<".", " ">>])

\* a space put between a character of class L and a following one of class R
SplitPair(text, L, R) ==
    ReSub(text,
          [k \in 1..Len(text) |->
              IF text[k] \in L /\ At(text, k + 1) \in R THEN 2 ELSE 0],
          [k \in 1..Len(text) |-> <<text[k], " ", At(text, k + 1)>>])

\* lines 124-126: _RE_CAMEL, _RE_WORD_NUM, _RE_NUM_WORD
SplitCamel(text) == SplitPair(text, LowerLetters, UpperLetters)
SplitWordNum(text) == SplitPair(text, Letters, Digits)
SplitNumWord(text) == SplitPair(text, Digits, Letters)

\* line 131: ([a-z]{3,})(non|the|...)\b with re.I at position k: the run of
\* letters that starts at k ends, at a word boundary, with one of the words
\* and at least three letters precede the word; the first group is greedy,
\* so the shortest such word is split off.  The value is the length of the
\* first group, 0 if there is no match at k.
GluedAt(text, k) ==
    LET r == Run(text, k, Letters)
        fits == {i \in 1..Len(GluedWords) :
                    /\ r - Len(GluedWords[i]) >= 3
                    /\ StartsWith(LowerText(text),
                                  k + r - Len(GluedWords[i]), GluedWords[i])
                    /\ At(text, k + r) \notin (Digits \cup {"_"})}
    IN  IF fits = {} THEN 0
        ELSE LET i == CHOOSE x \in fits :
                         \A y \in fits :
                             Len(GluedWords[x]) <= Len(GluedWords[y])
             IN  r - Len(GluedWords[i])

\* line 131: a space put before the glued word
SplitGlued(text) ==
    ReSub(text,
          [k \in 1..Len(text) |->
              IF GluedAt(text, k) > 0 THEN Run(text, k, Letters) ELSE 0],
          [k \in 1..Len(text) |->
              SubSeq(text, k, k + GluedAt(text, k) - 1) \o <<" ">>
              \o SubSeq(text, k + GluedAt(text, k),
                        k + Run(text, k, Letters) - 1)])

\* every run of at least atLeast characters of S replaced by rep
CollapseRuns(text, S, atLeast, rep) ==
    ReSub(text,
          [k \in 1..Len(text) |->
              IF Run(text, k, S) >= atLeast THEN Run(text, k, S) ELSE 0],
          [k \in 1..Len(text) |-> rep])

\* line 135: _RE_MULTI_NEWLINE \n{3,} -> two newlines
CollapseNewlines(text) == CollapseRuns(text, {"\n"}, 3, <<"\n", "\n">>)
\* lines 136, 160: _RE_MULTI_SPACE [ \t]+ -> one space
CollapseSpaces(text) == CollapseRuns(text, {" ", "\t"}, 1, <<" ">>)

\* line 139: \s*([,;:!?.])\s* -> the punctuation mark and one space
SpacePunctuation(text) ==
    ReSub(text,
          [k \in 1..Len(text) |->
              LET w == Run(text, k, Whitespace) IN
              IF At(text, k + w) \in Punctuation
              THEN w + 1 + Run(text, k + w + 1, Whitespace) ELSE 0],
          [k \in 1..Len(text) |->
              <<At(text, k + Run(text, k, Whitespace)), " ">>])

\* line 140: \s+\. -> "."
JoinPeriod(text) ==
    ReSub(text,
          [k \in 1..Len(text) |->
              LET w == Run(text, k, Whitespace) IN
              IF w >= 1 /\ At(text, k + w) = "." THEN w + 1 ELSE 0],
          [k \in 1..Len(text) |-> <<".">>])

\* line 141: \.{2,} -> "."
CollapsePeriods(text) == CollapseRuns(text, {"."}, 2, <<".">>)

\* line 142: \.\s*\. -> "."
MergePeriods(text) ==
    ReSub(text,
          [k \in 1..Len(text) |->
              LET w == Run(text, k + 1, Whitespace) IN
              IF text[k] = "." /\ At(text, k + 1 + w) = "."
              THEN w + 2 ELSE 0],
          [k \in 1..Len(text) |-> <<".">>])

\* str.split('\n'): the pieces between newlines, empty ones included
SplitLines(text) ==
    PiecesBetween(text, SortedSeq({k \in 1..Len(text) : text[k] = "\n"}),
                  [k \in 1..Len(text) |-> 1])

\* str.strip()
Strip(text) ==
    LET lead == Run(text, 1, Whitespace) IN
    IF lead = Len(text) THEN << >>
    ELSE SubSeq(text, lead + 1, Len(text) - RunBack(text, Len(text), Whitespace))

\* lines 146-157: the stripped lines that are kept
RECURSIVE CleanedLines(_)
CleanedLines(lines) ==
    IF lines = << >> THEN << >>
    ELSE LET line == Strip(Head(lines)) IN
         (IF line = << >> THEN << >>
          ELSE IF Len(line) < MinLineLen /\ line[Len(line)] # "."
          THEN << >>
          ELSE IF \E m \in BoilerplateMarkers :
                     IsSubstring(m, LowerText(line))
          THEN << >>
          ELSE <<line>>) \o CleanedLines(Tail(lines))

\* sep.join(parts)
RECURSIVE Join(_, _)
Join(parts, sep) ==
    IF parts = << >> THEN << >>
    ELSE IF Len(parts) = 1 THEN Head(parts)
    ELSE Head(parts) \o sep \o Join(Tail(parts), sep)

\* deep_clean, lines 102-161, on ASCII texts
DeepClean(text) ==
    IF text = << >> THEN << >>
    ELSE LET t3 == RemoveEmptyParens(RemoveRefs(RemoveUrls(text)))
             t4 == ReplaceBullets(t3)
             t5 == SplitGlued(SplitNumWord(SplitWordNum(SplitCamel(t4))))
             t6 == CollapseSpaces(CollapseNewlines(t5))
             t7 == MergePeriods(CollapsePeriods(JoinPeriod(
                       SpacePunctuation(t6))))
             t8 == Join(CleanedLines(SplitLines(t7)), <<" ">>)
         IN  Strip(CollapseSpaces(t8))

\* the characters of the texts handed to deep_clean
TextChars == {"a", "B", "1", " ", "\n", ".", "(", ")"}
Texts == SeqsUpTo(TextChars, MaxTextLen)

NoCleaning == [text |-> << >>, cleaned |-> << >>]

\* deep_clean applied to the text, then to its own last output
DeepCleanCall ==
    /\ Len(cleaning.cleaned) < MaxCleanings
    /\ cleaning' =
          [cleaning EXCEPT !.cleaned =
              Append(@, DeepClean(IF @ = << >> THEN cleaning.text
                                  ELSE @[Len(@)]))]
    /\ UNCHANGED nonCleaningVars

----------------------------------------------------------------------------
(* Part 3b: nlp_engine.score_sentences and extract_key_facts.              *)

\* 1.0 in rank units: 10000 for the logarithms of the IDF weights, 100 for
\* the weights of the composite, 12 for the divisions by the number of
\* query tokens and of sentences
RankOne == 10000 * 100 * 12

\* math.log(num / den) in ten-thousandths, for the ratios (n + 1) / (freq + 1)
\* of at most five sentences
LogRatio(num, den) ==
    CASE num = den -> 0
      [] num * 5 = den * 6 -> 1823
      [] num * 4 = den * 5 -> 2231
      [] num * 3 = den * 4 -> 2877
      [] num * 2 = den * 3 -> 4055
      [] num * 3 = den * 5 -> 5108
      [] num = den * 2 -> 6931
      [] num * 2 = den * 5 -> 9163
      [] num = den * 3 -> 10986

\* lines 195-199: in how many sentences the word occurs
DocFreq(sentences, w) ==
    Cardinality({i \in 1..Len(sentences) : w \in WordSet(sentences[i])})

\* _idf_weights, line 200: log((n + 1) / (freq + 1)) + 1, in ten-thousandths
IdfWeight(sentences, w) ==
    LogRatio(Len(sentences) + 1, DocFreq(sentences, w) + 1) + 10000

RECURSIVE SumIdf(_, _)
SumIdf(sentences, words) ==
    IF words = {} THEN 0
    ELSE LET w == CHOOSE x \in words : TRUE
         IN  IdfWeight(sentences, w) + SumIdf(sentences, words \ {w})

\* lines 232-236 and 275: relevance * 0.45
RelevanceTerm(sentences, query, text) ==
    LET query_tokens == WordSet(query)
        overlap == query_tokens \cap WordSet(text)
    IN  IF overlap = {} THEN 0
        ELSE (SumIdf(sentences, overlap) * 45 * 12)
                 \div Max(Cardinality(query_tokens), 1)

\* lines 239-240 and 276: max(0.0, 1.0 - idx / n * 1.2) * 0.15; idx from 0
PositionTerm(idx, n) ==
    (Max(0, 10 * n - 12 * idx) * 15 * (RankOne \div 1000)) \div Max(n, 1)

\* lines 243-249: length_score in tenths
LengthScore(text) ==
    LET wcount == Len(Split(LowerText(text))) IN
    IF 15 <= wcount /\ wcount <= 50 THEN 10
    ELSE IF (10 <= wcount /\ wcount < 15) \/ (50 < wcount /\ wcount <= 80)
    THEN 6
    ELSE 3

\* line 277: length_score * 0.10
LengthTerm(text) == LengthScore(text) * (RankOne \div 100)

\* lines 252-256 and 278: 0.5 for every query entity that occurs in the
\* text, case-insensitively, times 0.20
RECURSIVE EntityTerm(_, _)
EntityTerm(query_entities, text) ==
    IF query_entities = << >> THEN 0
    ELSE (IF IsSubstring(LowerText(Head(query_entities)), LowerText(text))
          THEN RankOne \div 10 ELSE 0)
         + EntityTerm(Tail(query_entities), text)

\* \w of the patterns
WordChars == Letters \cup Digits \cup {"_"}

\* \b between the characters k - 1 and k: one is a word character, the
\* other is not
Boundary(text, k) ==
    (At(text, k - 1) \in WordChars) # (At(text, k) \in WordChars)

\* re.search(r'\b(p1|p2|...)\b', text, re.I): one of the phrases occurs in
\* the text with a word boundary on either side
HasPhrase(phrases, text) ==
    LET low == LowerText(text) IN
    \E p \in phrases : \E k \in 1..(Len(low) - Len(p) + 1) :
        /\ SubSeq(low, k, k + Len(p) - 1) = p
        /\ Boundary(low, k)
        /\ Boundary(low, k + Len(p))

\* lines 259-263: the phrases of the definition signal that are written
\* with the letters a-z
DefinitionPhrases ==
    {<<"i", "s", " ", "a">>,
     <<"i", "s", " ", "a", "n">>,
     <<"i", "s", " ", "t", "h", "e">>,
     <<"r", "e", "f", "e", "r", "s", " ", "t", "o">>,
     <<"d", "e", "f", "i", "n", "e", "d", " ", "a", "s">>,
     <<"a", "r", "e">>,
     <<"b", "i", "r">>,
     <<"o", "l", "a", "n">>,
     <<"o", "l", "a", "r", "a", "k">>,
     <<"d", "e", "n", "i", "r">>,
     <<"d", "e", "m", "e", "k", "t", "i", "r">>}

\* lines 264-270: the phrases of the biographical signal that are written
\* with the letters a-z
BiographicalPhrases ==
    {<<"b", "o", "r", "n">>,
     <<"f", "o", "u", "n", "d", "e", "d">>,
     <<"c", "r", "e", "a", "t", "e", "d">>,
     <<"d", "e", "v", "e", "l", "o", "p", "e", "d">>,
     <<"k", "n", "o", "w", "n", " ", "f", "o", "r">>,
     <<"c", "a", "r", "e", "e", "r">>,
     <<"r", "e", "s", "e", "a", "r", "c", "h", "e", "r">>,
     <<"a", "u", "t", "h", "o", "r">>,
     <<"a", "r", "c", "h", "i", "t", "e", "c", "t">>,
     <<"e", "n", "g", "i", "n", "e", "e", "r">>,
     <<"s", "c", "i", "e", "n", "t", "i", "s", "t">>,
     <<"p", "r", "o", "f", "e", "s", "s", "o", "r">>,
     <<"c", "e", "o">>,
     <<"d", "e", "v", "e", "l", "o", "p", "e", "r">>,
     <<"k", "u", "r", "u", "c", "u">>,
     <<"b", "i", "l", "i", "n", "e", "n">>,
     <<"k", "a", "r", "i", "y", "e", "r">>,
     <<"y", "a", "z", "a", "r">>}

IsDefinition(text) == HasPhrase(DefinitionPhrases, text)
IsBiographical(text) == HasPhrase(BiographicalPhrases, text)

\* lines 274-281: the composite score
Composite(sentences, query, query_entities, idx) ==
    LET text == sentences[idx + 1] IN
    RelevanceTerm(sentences, query, text)
    + PositionTerm(idx, Len(sentences))
    + LengthTerm(text)
    + EntityTerm(query_entities, text)
    + (IF IsDefinition(text) THEN RankOne \div 10 ELSE 0)
    + (IF IsBiographical(text) THEN RankOne \div 10 ELSE 0)

\* a Sentence numbered from 1, as by enumerate(sentences, 1)
ScoredSentenceFromOne(sentences, query, query_entities, idx) ==
    [text |-> sentences[idx + 1],
     index |-> idx + 1,
     score |-> Composite(sentences, query, query_entities, idx),
     is_definition |-> IsDefinition(sentences[idx + 1]),
     is_biographical |-> IsBiographical(sentences[idx + 1])]

\* lines 283-293: the Sentence of index idx
ScoredSentence(sentences, query, query_entities, idx) ==
    [text |-> sentences[idx + 1],
     index |-> idx,
     score |-> Composite(sentences, query, query_entities, idx),
     is_definition |-> IsDefinition(sentences[idx + 1]),
     is_biographical |-> IsBiographical(sentences[idx + 1])]

\* a sort that puts a sentence before the sentences of equal score
RECURSIVE InsertBeforeEqual(_, _)
InsertBeforeEqual(sorted, s) ==
    IF sorted = << >> THEN <<s>>
    ELSE IF Head(sorted).score > s.score
    THEN <<Head(sorted)>> \o InsertBeforeEqual(Tail(sorted), s)
    ELSE <<s>> \o sorted

\* list.sort(key=score, reverse=True) is stable: a sentence goes behind the
\* sentences already placed whose score is greater or equal
RECURSIVE InsertByScore(_, _)
InsertByScore(sorted, s) ==
    IF sorted = << >> THEN <<s>>
    ELSE IF Head(sorted).score >= s.score
    THEN <<Head(sorted)>> \o InsertByScore(Tail(sorted), s)
    ELSE <<s>> \o sorted

\* line 296: scored.sort(key=lambda s: s.score, reverse=True)
RECURSIVE SortByScore(_)
SortByScore(scored) ==
    IF scored = << >> THEN << >>
    ELSE InsertByScore(SortByScore(SubSeq(scored, 1, Len(scored) - 1)),
                       scored[Len(scored)])

\* score_sentences, lines 203-297
ScoreSentences(sentences, query, query_entities) ==
    IF sentences = << >> THEN << >>
    ELSE SortByScore([k \in 1..Len(sentences) |->
             ScoredSentence(sentences, query, query_entities, k - 1)])

\* lines 87, 181: the characters that end a sentence
SentenceEnds == {".", "!", "?"}

\* line 87: the starts of the matches of _RE_SENTENCE_SPLIT, whitespace that
\* follows one of . ! ?
SentenceBreaks(text) ==
    {k \in 2..Len(text) :
        text[k] \in Whitespace /\ text[k - 1] \in SentenceEnds}

\* _RE_SENTENCE_SPLIT.split(text)[0]: the text up to the first break
FirstSentence(text) ==
    IF SentenceBreaks(text) = {} THEN text
    ELSE SubSeq(text, 1, Least(SentenceBreaks(text)) - 1)

\* lines 404-408: more than 60% of the tokens are tokens of a kept sentence
IsDuplicate(tokens, seen_tokens) ==
    \E existing \in seen_tokens :
        Cardinality(tokens \cap existing) * 100
            > 60 * Max(Cardinality(tokens), 1)

\* line 415: a fact is longer than this
MinFactLen == 15

\* lines 414-418: the fact made of a sentence, << >> if there is none
FactOf(text) ==
    LET first_sentence == Strip(FirstSentence(text)) IN
    IF Len(first_sentence) > MinFactLen
    THEN <<(IF first_sentence[Len(first_sentence)] \in {".", "!", "?"}
            THEN first_sentence ELSE Append(first_sentence, "."))>>
    ELSE << >>

\* the loop of lines 398-418 from sentence k on
RECURSIVE ExtractFrom(_, _, _, _, _)
ExtractFrom(scored_sentences, max_facts, k, facts, seen_tokens) ==
    IF k > Len(scored_sentences) \/ Len(facts) >= max_facts THEN facts
    ELSE LET tokens == WordSet(scored_sentences[k].text) IN
         IF IsDuplicate(tokens, seen_tokens)
         THEN ExtractFrom(scored_sentences, max_facts, k + 1, facts,
                          seen_tokens)
         ELSE ExtractFrom(scored_sentences, max_facts, k + 1,
                          facts \o FactOf(scored_sentences[k].text),
                          seen_tokens \cup {tokens})

\* extract_key_facts, lines 385-420
ExtractKeyFacts(scored_sentences, max_facts) ==
    ExtractFrom(scored_sentences, max_facts, 1, << >>, {})

\* the sentences of the model: fifteen words; ten words with a definition
\* signal; two sentences, the first short, with a biographical signal; two
\* sentences, the first long enough for a fact
SentenceTexts ==
    {<<"a", " ", "a", " ", "a", " ", "a", " ", "a", " ", "a", " ", "a",
       " ", "a", " ", "a", " ", "a", " ", "a", " ", "a", " ", "a", " ",
       "a", " ", "a">>,
     <<"a", "r", "e", " ", "a", " ", "a", " ", "a", " ", "a", " ", "a",
       " ", "a", " ", "a", " ", "a", " ", "a">>,
     <<"B", " ", "b", "o", "r", "n", ".", " ", "a">>,
     <<"a", "r", "e", " ", "b", " ", "a", " ", "a", " ", "a", " ", "a",
       " ", "a", " ", "a", "?", " ", "c">>}
QueryTexts ==
    {<< >>,
     <<"a", "r", "e">>,
     <<"A", "r", "e", " ", "b">>}
EntityLists ==
    {<< >>,
     <<<<"a", "r", "e">>>>,
     <<<<"A", "r", "e">>, <<"b">>>>}
SentenceLists == SeqsUpTo(SentenceTexts, MaxSentences)

NoRanking ==
    [pc |-> "idle", sentences |-> << >>, query |-> << >>,
     query_entities |-> << >>, ranked |-> << >>, max_facts |-> 0,
     facts |-> << >>]

\* one call of score_sentences
ScoreSentencesCall(sentences, query, query_entities) ==
    /\ ranking.pc = "idle"
    /\ ranking' =
          [NoRanking EXCEPT !.pc = "ranked",
                            !.sentences = sentences,
                            !.query = query,
                            !.query_entities = query_entities,
                            !.ranked = ScoreSentences(sentences, query,
                                                      query_entities)]
    /\ UNCHANGED nonRankingVars

\* one call of extract_key_facts on what score_sentences returned
ExtractKeyFactsCall(max_facts) ==
    /\ ranking.pc = "ranked"
    /\ ranking' =
          [ranking EXCEPT !.pc = "extracted",
                          !.max_facts = max_facts,
                          !.facts = ExtractKeyFacts(ranking.ranked,
                                                    max_facts)]
    /\ UNCHANGED nonRankingVars

----------------------------------------------------------------------------
(* Part 3c: nlp_engine.segment_sentences, _detect_query_type and           *)
(* _query_subject.                                                         *)

\* line 174: a sentence shorter than this is dropped
MinSentenceLen == 20
\* line 176: a sentence with fewer spaces than this is dropped
MinSpaces == 3
\* _RE_SENTENCE_SPLIT.split(text): the pieces between the whitespace runs
\* that follow one of . ! ?
SplitSentences(text) ==
    PiecesBetween(text, SortedSeq(SentenceBreaks(text)),
                  [k \in 1..Len(text) |-> Run(text, k, Whitespace)])

\* s.count(' ')
CountSpaces(s) == Cardinality({k \in 1..Len(s) : s[k] = " "})

\* _RE_NAVIGATION, lines 80-86: the alternatives written in ASCII
NavigationPhrases ==
    {<<"m", "e", "n", "u">>,
     <<"b", "r", "e", "a", "d", "c", "r", "u", "m", "b">>,
     <<"s", "i", "d", "e", "b", "a", "r">>,
     <<"s", "k", "i", "p", " ", "t", "o">>,
     <<"c", "o", "o", "k", "i", "e">>,
     <<"a", "c", "c", "e", "p", "t">>,
     <<"p", "r", "i", "v", "a", "c", "y", " ", "p", "o", "l", "i", "c",
       "y">>,
     <<"s", "i", "g", "n", " ", "i", "n">>,
     <<"l", "o", "g", " ", "i", "n">>,
     <<"s", "i", "g", "n", " ", "u", "p">>,
     <<"s", "u", "b", "s", "c", "r", "i", "b", "e">>,
     <<"n", "e", "w", "s", "l", "e", "t", "t", "e", "r">>,
     <<"a", "d", "v", "e", "r", "t", "i", "s", "e", "m", "e", "n", "t">>,
     <<"a", "l", "l", " ", "r", "i", "g", "h", "t", "s", " ", "r", "e",
       "s", "e", "r", "v", "e", "d">>,
     <<"t", "e", "r", "m", "s", " ", "o", "f", " ", "u", "s", "e">>,
     <<"t", "e", "r", "m", "s", " ", "o", "f", " ", "s", "e", "r", "v",
       "i", "c", "e">>,
     <<"t", "o", "g", "g", "l", "e", " ", "n", "a", "v", "i", "g", "a",
       "t", "i", "o", "n">>,
     <<"s", "e", "a", "r", "c", "h", ".", ".", ".">>,
     <<"l", "o", "a", "d", "i", "n", "g">>,
     <<"r", "e", "a", "d", " ", "m", "o", "r", "e">>,
     <<"s", "h", "o", "w", " ", "m", "o", "r", "e">>,
     <<"c", "l", "i", "c", "k", " ", "h", "e", "r", "e">>,
     <<"t", "a", "p", " ", "t", "o">>,
     <<"s", "w", "i", "p", "e">>,
     <<"d", "o", "w", "n", "l", "o", "a", "d", " ", "a", "p", "p">>,
     <<"i", "n", "s", "t", "a", "l", "l">>,
     <<"u", "p", "g", "r", "a", "d", "e">>}

\* lines 181-182 and 526-527: the first letter capitalised
Capitalise(s) ==
    IF s # << >> /\ s[1] \in LowerLetters
    THEN <<Upper(s[1])>> \o Tail(s) ELSE s

\* lines 184-185 and 529-530: a period appended unless one of . ! ? ends s
Punctuated(s) ==
    IF s # << >> /\ s[Len(s)] \notin SentenceEnds THEN Append(s, ".") ELSE s

\* lines 172-186 over the pieces of the split
RECURSIVE SegmentPieces(_)
SegmentPieces(raw) ==
    IF raw = << >> THEN << >>
    ELSE LET s == Strip(Head(raw)) IN
         (IF Len(s) < MinSentenceLen THEN << >>
          ELSE IF CountSpaces(s) < MinSpaces THEN << >>
          ELSE IF HasPhrase(NavigationPhrases, s) THEN << >>
          ELSE <<Punctuated(Capitalise(s))>>)
         \o SegmentPieces(Tail(raw))

\* segment_sentences, lines 168-187
SegmentSentences(text) == SegmentPieces(SplitSentences(text))

\* lines 430-439: the phrases of the query types written in ASCII
BiographicalQueries ==
    {<<"k", "i", "m", "d", "i", "r">>,
     <<"w", "h", "o", " ", "i", "s">>,
     <<"w", "h", "o", " ", "w", "a", "s">>,
     <<"w", "h", "o", " ", "a", "r", "e">>}
DefinitionQueries ==
    {<<"n", "e", "d", "i", "r">>,
     <<"w", "h", "a", "t", " ", "i", "s">>,
     <<"w", "h", "a", "t", " ", "a", "r", "e">>,
     <<"d", "e", "f", "i", "n", "e">>}
ComparativeQueries ==
    {<<"v", "s">>,
     <<"c", "o", "m", "p", "a", "r", "e">>,
     <<"f", "a", "r", "k">>,
     <<"d", "i", "f", "f", "e", "r", "e", "n", "c", "e">>}
ProceduralQueries ==
    {<<"h", "o", "w", " ", "t", "o">>,
     <<"s", "t", "e", "p", "s">>}
CausalQueries ==
    {<<"w", "h", "y">>,
     <<"n", "e", "d", "e", "n">>,
     <<"s", "e", "b", "e", "p">>}

\* a detection that tests the causal phrases before the others
DetectQueryTypeCausalFirst(query) ==
    IF HasPhrase(CausalQueries, query) THEN "causal"
    ELSE IF HasPhrase(BiographicalQueries, query) THEN "biographical"
    ELSE IF HasPhrase(DefinitionQueries, query) THEN "definition"
    ELSE IF HasPhrase(ComparativeQueries, query) THEN "comparative"
    ELSE IF HasPhrase(ProceduralQueries, query) THEN "procedural"
    ELSE "general"

\* _detect_query_type, lines 427-440
DetectQueryType(query) ==
    IF HasPhrase(BiographicalQueries, query) THEN "biographical"
    ELSE IF HasPhrase(DefinitionQueries, query) THEN "definition"
    ELSE IF HasPhrase(ComparativeQueries, query) THEN "comparative"
    ELSE IF HasPhrase(ProceduralQueries, query) THEN "procedural"
    ELSE IF HasPhrase(CausalQueries, query) THEN "causal"
    ELSE "general"

\* str.rstrip(chars)
RStrip(text, chars) ==
    SubSeq(text, 1, Len(text) - RunBack(text, Len(text), chars))

\* re.search(r'(?:p1|p2)\s+(.+)', q, re.I): where the group starts, for the
\* leftmost position that holds one of the phrases followed by whitespace
\* and a character that is no newline; 0 if there is none
GroupAfter(q, phrases) ==
    LET starts == {k + Len(p) + Run(q, k + Len(p), Whitespace) :
                      <<k, p>> \in {kp \in (1..Len(q)) \X phrases :
                          /\ StartsWith(LowerText(q), kp[1], kp[2])
                          /\ Run(q, kp[1] + Len(kp[2]), Whitespace) >= 1
                          /\ At(q, kp[1] + Len(kp[2])
                                  + Run(q, kp[1] + Len(kp[2]), Whitespace))
                                 \notin {"", "\n"}}}
    IN  IF starts = {} THEN 0 ELSE Least(starts)

\* the group (.+) that starts at k: to the end of the line
RestOfLine(q, k) ==
    LET newlines == {j \in k..Len(q) : q[j] = "\n"} IN
    SubSeq(q, k, IF newlines = {} THEN Len(q) ELSE Least(newlines) - 1)

\* re.search(r'(.+?)\s+word', q, re.I): the pairs <<i, j>> such that the
\* lazy group can be q[i..j-1]: no newline in it, whitespace from j on up
\* to the word
GroupsBefore(q, word) ==
    {ij \in (1..Len(q)) \X (1..Len(q)) :
        /\ ij[1] < ij[2]
        /\ \A t \in ij[1]..(ij[2] - 1) : q[t] # "\n"
        /\ q[ij[2]] \in Whitespace
        /\ StartsWith(LowerText(q), ij[2] + Run(q, ij[2], Whitespace), word)}

\* the group of the leftmost match, the shortest for that start
GroupBefore(q, word) ==
    LET i == Least({ij[1] : ij \in GroupsBefore(q, word)})
        j == Least({ij[2] : ij \in {x \in GroupsBefore(q, word) : x[1] = i}})
    IN  SubSeq(q, i, j - 1)

\* lines 447 and 454: the phrases in front of the subject
WhoPhrases ==
    {<<"w", "h", "o", " ", "i", "s">>,
     <<"w", "h", "o", " ", "w", "a", "s">>}
WhatPhrases ==
    {<<"w", "h", "a", "t", " ", "i", "s">>,
     <<"w", "h", "a", "t", " ", "a", "r", "e">>}
Kimdir == <<"k", "i", "m", "d", "i", "r">>
Nedir == <<"n", "e", "d", "i", "r">>

\* _query_subject, lines 443-461
QuerySubject(query) ==
    LET q == Strip(query) IN
    IF GroupAfter(q, WhoPhrases) > 0
    THEN RStrip(Strip(RestOfLine(q, GroupAfter(q, WhoPhrases))), {"?", "."})
    ELSE IF GroupsBefore(q, Kimdir) # {}
    THEN Strip(GroupBefore(q, Kimdir))
    ELSE IF GroupAfter(q, WhatPhrases) > 0
    THEN RStrip(Strip(RestOfLine(q, GroupAfter(q, WhatPhrases))), {"?", "."})
    ELSE IF GroupsBefore(q, Nedir) # {}
    THEN Strip(GroupBefore(q, Nedir))
    ELSE Strip(RStrip(q, {"?", ".", "!"}))

----------------------------------------------------------------------------
(* Part 3d: nlp_engine.extract_entities and compose_answer.                *)

\* _ROLE_PATTERNS, lines 305-312: the alternatives written in ASCII, in
\* pattern order, lower-cased (the pattern ignores case)
RolePhrases ==
    <<<<"r", "e", "s", "e", "a", "r", "c", "h", "e", "r">>,
      <<"e", "n", "g", "i", "n", "e", "e", "r">>,
      <<"d", "e", "v", "e", "l", "o", "p", "e", "r">>,
      <<"s", "c", "i", "e", "n", "t", "i", "s", "t">>,
      <<"p", "r", "o", "f", "e", "s", "s", "o", "r">>,
      <<"a", "r", "c", "h", "i", "t", "e", "c", "t">>,
      <<"f", "o", "u", "n", "d", "e", "r">>,
      <<"c", "o", "-", "f", "o", "u", "n", "d", "e", "r">>,
      <<"c", "e", "o">>,
      <<"c", "t", "o">>,
      <<"a", "u", "t", "h", "o", "r">>,
      <<"d", "e", "s", "i", "g", "n", "e", "r">>,
      <<"d", "i", "r", "e", "c", "t", "o", "r">>,
      <<"m", "a", "n", "a", "g", "e", "r">>,
      <<"s", "p", "e", "c", "i", "a", "l", "i", "s", "t">>,
      <<"a", "n", "a", "l", "y", "s", "t">>,
      <<"c", "o", "n", "s", "u", "l", "t", "a", "n", "t">>,
      <<"e", "x", "p", "e", "r", "t">>,
      <<"l", "e", "a", "d">>,
      <<"p", "r", "i", "n", "c", "i", "p", "a", "l">>,
      <<"s", "e", "n", "i", "o", "r">>,
      <<"k", "u", "r", "u", "c", "u">>,
      <<"y", "a", "z", "a", "r">>,
      <<"u", "z", "m", "a", "n">>,
      <<"l", "i", "d", "e", "r">>>>

\* _ORG_PATTERNS, lines 315-321, in pattern order, without Hugging\s*Face
OrgPhrases ==
    <<<<"G", "o", "o", "g", "l", "e">>,
      <<"M", "e", "t", "a">>,
      <<"M", "i", "c", "r", "o", "s", "o", "f", "t">>,
      <<"A", "p", "p", "l", "e">>,
      <<"A", "m", "a", "z", "o", "n">>,
      <<"O", "p", "e", "n", "A", "I">>,
      <<"D", "e", "e", "p", "M", "i", "n", "d">>,
      <<"A", "n", "t", "h", "r", "o", "p", "i", "c">>,
      <<"M", "I", "T">>,
      <<"S", "t", "a", "n", "f", "o", "r", "d">>,
      <<"H", "a", "r", "v", "a", "r", "d">>,
      <<"B", "e", "r", "k", "e", "l", "e", "y">>,
      <<"O", "x", "f", "o", "r", "d">>,
      <<"C", "a", "m", "b", "r", "i", "d", "g", "e">>,
      <<"M", "o", "z", "i", "l", "l", "a">>,
      <<"G", "i", "t", "H", "u", "b">>,
      <<"I", "B", "M">>,
      <<"N", "V", "I", "D", "I", "A">>,
      <<"T", "e", "s", "l", "a">>,
      <<"S", "p", "a", "c", "e", "X">>,
      <<"P", "y", "T", "o", "r", "c", "h">>,
      <<"T", "e", "n", "s", "o", "r", "F", "l", "o", "w">>,
      <<"K", "e", "r", "a", "s">>,
      <<"T", "w", "i", "t", "t", "e", "r">>,
      <<"L", "i", "n", "k", "e", "d", "I", "n">>,
      <<"F", "a", "c", "e", "b", "o", "o", "k">>,
      <<"Y", "o", "u", "T", "u", "b", "e">>,
      <<"R", "e", "d", "d", "i", "t">>>>

\* _FIELD_PATTERNS, lines 324-334, in pattern order, lower-cased (the
\* pattern ignores case)
FieldPhrases ==
    <<<<"m", "a", "c", "h", "i", "n", "e", " ", "l", "e", "a", "r", "n",
        "i", "n", "g">>,
      <<"d", "e", "e", "p", " ", "l", "e", "a", "r", "n", "i", "n", "g">>,
      <<"a", "r", "t", "i", "f", "i", "c", "i", "a", "l", " ", "i", "n",
        "t", "e", "l", "l", "i", "g", "e", "n", "c", "e">>,
      <<"n", "a", "t", "u", "r", "a", "l", " ", "l", "a", "n", "g", "u",
        "a", "g", "e", " ", "p", "r", "o", "c", "e", "s", "s", "i", "n",
        "g">>,
      <<"n", "l", "p">>,
      <<"c", "o", "m", "p", "u", "t", "e", "r", " ", "v", "i", "s", "i",
        "o", "n">>,
      <<"n", "o", "n", "-", "t", "r", "a", "n", "s", "f", "o", "r", "m",
        "e", "r">>,
      <<"t", "r", "a", "n", "s", "f", "o", "r", "m", "e", "r">>,
      <<"n", "e", "u", "r", "a", "l", " ", "n", "e", "t", "w", "o", "r",
        "k">>,
      <<"b", "l", "o", "c", "k", "c", "h", "a", "i", "n">>,
      <<"q", "u", "a", "n", "t", "u", "m", " ", "c", "o", "m", "p", "u",
        "t", "i", "n", "g">>,
      <<"r", "o", "b", "o", "t", "i", "c", "s">>,
      <<"r", "e", "i", "n", "f", "o", "r", "c", "e", "m", "e", "n", "t",
        " ", "l", "e", "a", "r", "n", "i", "n", "g">>,
      <<"g", "e", "n", "e", "r", "a", "t", "i", "v", "e", " ", "a", "i">>,
      <<"l", "a", "r", "g", "e", " ", "l", "a", "n", "g", "u", "a", "g",
        "e", " ", "m", "o", "d", "e", "l">>,
      <<"d", "i", "f", "f", "u", "s", "i", "o", "n", " ", "m", "o", "d",
        "e", "l">>,
      <<"s", "y", "s", "t", "e", "m", "a", "t", "i", "c", " ", "l", "e",
        "a", "r", "n", "i", "n", "g">>,
      <<"a", "r", "c", "h", "i", "t", "e", "c", "t", "u", "r", "e", " ",
        "r", "e", "s", "e", "a", "r", "c", "h">>,
      <<"m", "l">>,
      <<"a", "i">>,
      <<"c", "v">>,
      <<"l", "l", "m">>,
      <<"a", "g", "i">>,
      <<"g", "p", "t">>,
      <<"b", "e", "r", "t">>>>

\* the alternatives that match at position k of the text, with a word
\* boundary on either side; folded is the text, in lower case where the
\* pattern ignores case
PhrasesAt(text, folded, k, phrases) ==
    IF ~Boundary(text, k) THEN {}
    ELSE {i \in 1..Len(phrases) :
             /\ StartsWith(folded, k, phrases[i])
             /\ Boundary(text, k + Len(phrases[i]))}

\* pattern.finditer(text): the matched texts, left to right and without
\* overlap; where several alternatives match, the first of the pattern is
\* taken
FindAll(text, phrases, ignoreCase) ==
    LET folded == IF ignoreCase THEN LowerText(text) ELSE text
        len == [k \in 1..Len(text) |->
                   LET here == PhrasesAt(text, folded, k, phrases) IN
                   IF here = {} THEN 0 ELSE Len(phrases[Least(here)])]
        starts == Matches(len, Len(text))
    IN  [i \in 1..Len(starts) |->
            SubSeq(text, starts[i], starts[i] + len[starts[i]] - 1)]

\* [A-Z][a-z]+ at position k: its length, 0 if there is none
CapWord(text, k) ==
    IF At(text, k) \in UpperLetters /\ Run(text, k + 1, LowerLetters) >= 1
    THEN 1 + Run(text, k + 1, LowerLetters) ELSE 0

\* \s+[A-Z][a-z]+ at position k: its length, 0 if there is none
NextCapWord(text, k) ==
    LET w == Run(text, k, Whitespace) IN
    IF w >= 1 /\ CapWord(text, k + w) > 0
    THEN w + CapWord(text, k + w) ELSE 0

\* line 367: the length of the match of two or three capitalised words that
\* starts at k, three if possible; 0 if there is none
NameAt(text, k) ==
    LET one == CapWord(text, k)
        two == IF one > 0 /\ NextCapWord(text, k + one) > 0
               THEN one + NextCapWord(text, k + one) ELSE 0
        three == IF two > 0 /\ NextCapWord(text, k + two) > 0
                 THEN two + NextCapWord(text, k + two) ELSE 0
    IN  IF ~Boundary(text, k) THEN 0
        ELSE IF three > 0 /\ Boundary(text, k + three) THEN three
        ELSE IF two > 0 /\ Boundary(text, k + two) THEN two
        ELSE 0

\* the matches of line 367, left to right, as pairs <<start, name>>
FindNames(text) ==
    LET len == [k \in 1..Len(text) |-> NameAt(text, k)]
        starts == Matches(len, Len(text))
    IN  [i \in 1..Len(starts) |->
            <<starts[i],
              SubSeq(text, starts[i], starts[i] + len[starts[i]] - 1)>>]

\* the loops of lines 343-364: an entity for every name not seen before
RECURSIVE AddEntities(_, _, _)
AddEntities(entities, names, category) ==
    IF names = << >> THEN entities
    ELSE LET name == Head(names)
             seen == {LowerText(entities[i].name) : i \in 1..Len(entities)}
         IN  AddEntities(IF LowerText(name) \in seen THEN entities
                         ELSE Append(entities, [name |-> name,
                                                category |-> category]),
                         Tail(names), category)

\* the loop of lines 367-376: a name follows no sentence end and is longer
\* than four characters
RECURSIVE AddPersons(_, _, _)
AddPersons(entities, text, matches) ==
    IF matches = << >> THEN entities
    ELSE LET start == Head(matches)[1]
             name == Head(matches)[2]
             seen == {LowerText(entities[i].name) : i \in 1..Len(entities)}
         IN  AddPersons(
                 IF /\ LowerText(name) \notin seen
                    /\ Len(name) > 4
                    /\ ~(start > 1 /\ text[start - 1] \in {".", "!", "?", "\n"})
                 THEN Append(entities, [name |-> name, category |-> "PERSON"])
                 ELSE entities,
                 text, Tail(matches))

\* extract_entities, lines 337-378
ExtractEntities(text) ==
    LET roles == AddEntities(<< >>, FindAll(text, RolePhrases, TRUE),
                             "ROLE")
        orgs == AddEntities(roles, FindAll(text, OrgPhrases, FALSE),
                            "ORG")
        topics == AddEntities(orgs, FindAll(text, FieldPhrases, TRUE),
                              "TOPIC")
    IN  AddPersons(topics, text, FindNames(text))

----------------------------------------------------------------------------
(* Part 3e: nlp_engine.compose_answer and the class AnswerEngine.          *)

\* lines 490-493: more than 55% of the tokens are tokens of a selected
\* sentence
IsNearDuplicate(tokens, seen) ==
    \E ex \in seen :
        Cardinality(tokens \cap ex) * 100 > 55 * Max(Cardinality(tokens), 1)

\* the loop of lines 486-497 from sentence k on
RECURSIVE SelectFrom(_, _, _, _, _)
SelectFrom(scored, max_sentences, k, selected, seen) ==
    IF k > Len(scored) \/ Len(selected) >= max_sentences THEN selected
    ELSE LET tokens == WordSet(scored[k].text) IN
         IF IsNearDuplicate(tokens, seen)
         THEN SelectFrom(scored, max_sentences, k + 1, selected, seen)
         ELSE SelectFrom(scored, max_sentences, k + 1,
                         Append(selected, scored[k]), seen \cup {tokens})

\* a key that sends no sentence to the front
FrontKeyNone(s, query_type) == 0

\* lines 508-511 and 515-518: 0 for the sentences that go to the front
FrontKey(s, query_type) ==
    IF query_type = "biographical"
    THEN (IF s.is_biographical \/ s.is_definition THEN 0 ELSE 1)
    ELSE IF query_type = "definition"
    THEN (IF s.is_definition THEN 0 ELSE 1)
    ELSE 0

\* sorted(): a sentence goes behind the sentences already placed whose
\* key (front key, index) is less or equal
RECURSIVE InsertByKey(_, _, _)
InsertByKey(sorted, s, query_type) ==
    IF sorted = << >> THEN <<s>>
    ELSE LET h == Head(sorted)
             hk == FrontKey(h, query_type)
             sk == FrontKey(s, query_type)
         IN  IF hk < sk \/ (hk = sk /\ h.index <= s.index)
             THEN <<h>> \o InsertByKey(Tail(sorted), s, query_type)
             ELSE <<s>> \o sorted

\* lines 503-519: document order, then the type-specific order
RECURSIVE SortSelected(_, _)
SortSelected(selected, query_type) ==
    IF selected = << >> THEN << >>
    ELSE InsertByKey(SortSelected(SubSeq(selected, 1, Len(selected) - 1),
                                  query_type),
                     selected[Len(selected)], query_type)

\* lines 522-531: the sentences as they are put into the summary
Paragraphs(selected) ==
    [k \in 1..Len(selected) |->
        Punctuated(Capitalise(Strip(selected[k].text)))]

NoClearInformation(subject) ==
    <<"N", "o", " ", "c", "l", "e", "a", "r", " ", "i", "n", "f", "o", "r",
      "m", "a", "t", "i", "o", "n", " ", "f", "o", "u", "n", "d", " ", "f",
      "o", "r", " ", "'">>
    \o subject \o <<"'", ".">>

\* compose_answer, lines 464-533
ComposeAnswer(scored, query, query_type, max_sentences) ==
    LET selected == SelectFrom(scored, max_sentences, 1, << >>, {}) IN
    IF selected = << >> THEN NoClearInformation(QuerySubject(query))
    ELSE Join(Paragraphs(SortSelected(selected, query_type)), <<" ">>)

\* the label with the thresholds taken as strict
ConfidenceLabelStrict(c) ==
    IF c > 80 THEN "High"
    ELSE IF c > 55 THEN "Moderate"
    ELSE IF c > 30 THEN "Low"
    ELSE "Very Low"

\* _confidence_label, lines 628-636; c in hundredths
ConfidenceLabel(c) ==
    IF c >= 80 THEN "High"
    ELSE IF c >= 55 THEN "Moderate"
    ELSE IF c >= 30 THEN "Low"
    ELSE "Very Low"

CouldNotFind(subject) ==
    <<"C", "o", "u", "l", "d", " ", "n", "o", "t", " ", "f", "i", "n", "d",
      " ", "e", "n", "o", "u", "g", "h", " ", "i", "n", "f", "o", "r", "m",
      "a", "t", "i", "o", "n", " ", "a", "b", "o", "u", "t", " ", "'">>
    \o subject \o <<"'", ".">>

\* _empty_answer, lines 638-648; raw_debug None is the empty sequence, a
\* text the sequence that holds it
EmptyAnswer(query, query_type, sources) ==
    [summary |-> CouldNotFind(QuerySubject(query)),
     key_facts |-> << >>,
     entities |-> << >>,
     sources |-> sources,
     query_type |-> query_type,
     confidence_label |-> "Very Low",
     confidence |-> 0,
     raw_debug |-> << >>]

\* line 584: [deep_clean(t) for t in raw_texts if t]
RECURSIVE CleanedTexts(_)
CleanedTexts(raw_texts) ==
    IF raw_texts = << >> THEN << >>
    ELSE (IF Head(raw_texts) = << >> THEN << >>
          ELSE <<DeepClean(Head(raw_texts))>>)
         \o CleanedTexts(Tail(raw_texts))

\* line 623: the slice combined[:500]
RawDebugLen == 500

\* sources or []: sources is << >> for None and the sequence that holds
\* the list otherwise
SourcesOf(sources) == IF sources = << >> THEN << >> ELSE sources[1]

\* lines 573-574: [subject] if subject else []
EntitiesOfSubject(subject) == IF subject = << >> THEN << >> ELSE <<subject>>

\* synthesize, lines 607-624: the answer made of the scored sentences
AnswerOf(self, combined, scored, query, sources, confidence) ==
    [summary |-> ComposeAnswer(scored, query, DetectQueryType(query),
                               self.max_summary_sentences),
     key_facts |-> ExtractKeyFacts(scored, self.max_key_facts),
     entities |-> ExtractEntities(combined),
     sources |-> SourcesOf(sources),
     query_type |-> DetectQueryType(query),
     confidence_label |-> ConfidenceLabel(confidence),
     confidence |-> confidence,
     raw_debug |-> <<SubSeq(combined, 1, Min(Len(combined), RawDebugLen))>>]

\* lines 595-624, without the return of lines 592-593
SynthesizeUnsegmented(self, combined, sentences, query, sources, conf) ==
    AnswerOf(self, combined,
             ScoreSentences(sentences, query,
                            EntitiesOfSubject(QuerySubject(query))),
             query, sources, conf)

\* synthesize, lines 592-624: the sentences of the combined text
SynthesizeSentences(self, combined, sentences, query, sources, conf) ==
    IF sentences = << >>
    THEN EmptyAnswer(query, DetectQueryType(query), SourcesOf(sources))
    ELSE AnswerOf(self, combined,
                  ScoreSentences(sentences, query,
                                 EntitiesOfSubject(QuerySubject(query))),
                  query, sources, conf)

\* synthesize, lines 587-624: the cleaned texts joined
SynthesizeCombined(self, combined, query, sources, confidence) ==
    IF Strip(combined) = << >>
    THEN EmptyAnswer(query, DetectQueryType(query), SourcesOf(sources))
    ELSE SynthesizeSentences(self, combined, SegmentSentences(combined),
                             query, sources, confidence)

\* synthesize, lines 566-624; confidence is in hundredths
Synthesize(self, raw_texts, query, sources, confidence) ==
    SynthesizeCombined(self, Join(CleanedTexts(raw_texts), <<" ">>), query,
                       sources, confidence)

\* the raw texts of the model: no text, whitespace, a text too short for a
\* sentence, a text that is noise only, and two texts with two sentences
\* each, one sentence in common
EmptyText ==
    << >>
BlankText ==
    <<" ", "\n", " ">>
ShortText ==
    <<"B", " ", "b", "o", "r", "n", ".">>
NoiseText ==
    <<"s", "e", "e", " ", "w", "w", "w", ".", "x", ".", "y", " ", "[", "1",
      "]", " ", "c", "o", "o", "k", "i", "e">>
BioText ==
    <<"A", "d", "a", " ", "B", "y", "r", "o", "n", " ", "w", "a", "s", " ",
      "a", "n", " ", "e", "n", "g", "i", "n", "e", "e", "r", ".", " ", "S",
      "h", "e", " ", "i", "s", " ", "t", "h", "e", " ", "a", "u", "t", "h",
      "o", "r", " ", "o", "f", " ", "i", "t", "?">>
TopicText ==
    <<"t", "o", "d", "a", "y", " ", "A", "d", "a", " ", "B", "y", "r", "o",
      "n", " ", "i", "s", " ", "a", "t", " ", "I", "B", "M", " ", "|", " ",
      "s", "h", "e", " ", "i", "s", " ", "t", "h", "e", " ", "a", "u", "t",
      "h", "o", "r", " ", "o", "f", " ", "i", "t">>
RawTextLists ==
    {<< >>,
     <<EmptyText>>,
     <<BlankText>>,
     <<ShortText>>,
     <<NoiseText>>,
     <<BioText>>,
     <<TopicText>>,
     <<BioText, TopicText>>,
     <<EmptyText, BioText>>,
     <<ShortText, TopicText>>}
SynthesisQueries ==
    {<< >>,
     <<"w", "h", "o", " ", "i", "s", " ", "A", "d", "a", " ", "B", "y",
       "r", "o", "n", "?">>,
     <<"A", "d", "a", " ", "k", "i", "m", "d", "i", "r">>,
     <<"w", "h", "a", "t", " ", "i", "s", " ", "m", "a", "c", "h", "i",
       "n", "e", " ", "l", "e", "a", "r", "n", "i", "n", "g">>}
\* None, and a list of two sources
SourceArguments ==
    {<< >>,
     <<<<<<"w", "i", "k", "i", "p", "e", "d", "i", "a">>,
       <<"h", "t", "t", "p", "s", ":", "/", "/", "w", "w", "w", ".", "a",
         ".", "b", "/", "c">>>>>>}
\* confidences in hundredths, on either side of the label thresholds
ConfidenceValues == {29, 30, 54, 55, 79, 80}
\* the constructor arguments: the defaults of lines 560-561 and smaller ones
Engines ==
    {[max_summary_sentences |-> n, max_key_facts |-> n] : n \in {0, 1, 5}}

\* the inputs of the calls that repeat on one engine
FewRawTextLists == {<< >>, <<BioText>>, <<BioText, TopicText>>}
FewQueries == {<<"w", "h", "o", " ", "i", "s", " ", "A", "d", "a", " ", "B", "y", "r",
      "o", "n", "?">>, <<"A", "d", "a", " ", "k", "i", "m", "d", "i", "r">>}
FewConfidences == {55}

NoSynthesis ==
    [calls |-> 0, first |-> << >>, last |-> << >>, interleaved |-> FALSE]

\* the record of a synthesize call whose key-fact budget shrinks with every
\* earlier call
SynthesisRecordCounting(raw_texts, query, sources, confidence) ==
    [raw_texts |-> raw_texts, query |-> query, sources |-> sources,
     confidence |-> confidence,
     answer |-> Synthesize([engine EXCEPT !.max_key_facts =
                                Max(0, @ - synthesis.calls)],
                           raw_texts, query, sources, confidence)]

\* the record of one synthesize call
SynthesisRecord(raw_texts, query, sources, confidence) ==
    [raw_texts |-> raw_texts, query |-> query, sources |-> sources,
     confidence |-> confidence,
     answer |-> Synthesize(engine, raw_texts, query, sources, confidence)]

\* two calls with the same arguments
SameInputs(a, b) ==
    /\ a.raw_texts = b.raw_texts
    /\ a.query = b.query
    /\ a.sources = b.sources
    /\ a.confidence = b.confidence

\* the calls on the engine after one more: the first call and the last call
\* are remembered, and whether a call with other arguments than the first
\* came after it
SynthesisAfter(call) ==
    [calls |-> synthesis.calls + 1,
     first |-> IF synthesis.calls = 0 THEN <<call>> ELSE synthesis.first,
     last |-> <<call>>,
     interleaved |-> \/ synthesis.interleaved
                     \/ /\ synthesis.calls > 0
                        /\ ~SameInputs(call, synthesis.first[1])]

\* one call of synthesize on the engine
SynthesizeCall(raw_texts, query, sources, confidence) ==
    /\ synthesis.calls < MaxCalls
    /\ synthesis' = SynthesisAfter(SynthesisRecord(raw_texts, query, sources,
                                                   confidence))
    /\ UNCHANGED nonSynthesisVars

(* Part 3f: nlp_engine.render_answer.                                       *)

\* the characters of the labels and of the entity categories
WordText ==
    ("High" :> <<"H", "i", "g", "h">>)
    @@ ("Moderate" :> <<"M", "o", "d", "e", "r", "a", "t", "e">>)
    @@ ("Low" :> <<"L", "o", "w">>)
    @@ ("Very Low" :> <<"V", "e", "r", "y", " ", "L", "o", "w">>)
    @@ ("ROLE" :> <<"R", "O", "L", "E">>)
    @@ ("ORG" :> <<"O", "R", "G">>)
    @@ ("TOPIC" :> <<"T", "O", "P", "I", "C">>)
    @@ ("PERSON" :> <<"P", "E", "R", "S", "O", "N">>)

\* str(n) for a natural number n below 1000
DigitText(d) == <<SubSeq(<<"0", "1", "2", "3", "4", "5", "6", "7", "8", "9">>,
                         d + 1, d + 1)[1]>>
NaturalText(n) ==
    (IF n >= 100 THEN DigitText(n \div 100) ELSE << >>)
    \o (IF n >= 10 THEN DigitText((n \div 10) % 10) ELSE << >>)
    \o DigitText(n % 10)

\* line 717: f"{confidence:.2f}" for a confidence of c hundredths
TwoDecimals(c) ==
    NaturalText(c \div 100) \o <<".">>
    \o DigitText((c % 100) \div 10) \o DigitText(c % 10)

\* line 717: the confidence line
ConfidenceLine(answer) ==
    <<"C", "o", "n", "f", "i", "d", "e", "n", "c", "e", ":", " ">>
    \o WordText[answer.confidence_label] \o <<" ", "(">>
    \o TwoDecimals(answer.confidence) \o <<")">>

\* the bullet of line 685, written in ASCII
BulletMark == "*"

\* lines 680-685: a line for every fact that is not blank
RECURSIVE FactLines(_)
FactLines(key_facts) ==
    IF key_facts = << >> THEN << >>
    ELSE (IF Strip(Head(key_facts)) = << >> THEN << >>
          ELSE <<<<" ", " ", BulletMark, " ">> \o Strip(Head(key_facts))>>)
         \o FactLines(Tail(key_facts))

\* lines 676-685: the key-facts block
FactsBlock(answer) ==
    IF answer.key_facts = << >> THEN << >>
    ELSE <<<< >>, <<"K", "e", "y", " ", "F", "a", "c", "t", "s", ":">>>>
         \o FactLines(answer.key_facts)

\* lines 688-692: the entities block, in verbose mode only
EntitiesBlock(answer, verbose) ==
    IF ~verbose \/ answer.entities = << >> THEN << >>
    ELSE <<<< >>, <<"E", "n", "t", "i", "t", "i", "e", "s", ":">>>>
         \o [k \in 1..Len(answer.entities) |->
                <<" ", " ", "[">> \o WordText[answer.entities[k].category]
                \o <<"]", " ">> \o answer.entities[k].name]

\* the positions at which the text holds lit
Occurrences(text, lit) == {k \in 1..Len(text) : StartsWith(text, k, lit)}

\* text.split(sep)[0]
BeforeFirst(text, sep) ==
    IF Occurrences(text, sep) = {} THEN text
    ELSE SubSeq(text, 1, Least(Occurrences(text, sep)) - 1)

\* text.split(sep)[1] for a text that holds sep
AfterFirst(text, sep) ==
    LET from == Least(Occurrences(text, sep)) + Len(sep) IN
    BeforeFirst(SubSeq(text, from, Len(text)), sep)

\* text.replace(old, '')
Remove(text, old) ==
    ReSub(text,
          [k \in 1..Len(text) |->
              IF StartsWith(text, k, old) THEN Len(old) ELSE 0],
          [k \in 1..Len(text) |-> << >>])

\* lines 701-707: the label of a source
SourceLabel(s) ==
    Strip(IF Occurrences(s, <<":", "/", "/">>) # {}
          THEN Remove(BeforeFirst(AfterFirst(s, <<":", "/", "/">>), <<"/">>),
                      <<"w", "w", "w", ".">>)
          ELSE IF Occurrences(s, <<":">>) # {} THEN BeforeFirst(s, <<":">>)
          ELSE s)

\* lines 699-710: the labels that are not empty, each once, in order
RECURSIVE CleanSources(_, _)
CleanSources(sources, seen) ==
    IF sources = << >> THEN << >>
    ELSE LET label == SourceLabel(Head(sources)) IN
         IF label # << >> /\ label \notin seen
         THEN <<label>> \o CleanSources(Tail(sources), seen \cup {label})
         ELSE CleanSources(Tail(sources), seen)

\* line 713: at most this many labels are shown
MaxLabels == 4

\* lines 695-713: the sources block
SourcesBlock(answer) ==
    LET clean_sources == CleanSources(answer.sources, {}) IN
    IF clean_sources = << >> THEN << >>
    ELSE <<<< >>,
           <<"S", "o", "u", "r", "c", "e", "s", ":", " ">>
           \o Join(SubSeq(clean_sources, 1,
                          Min(Len(clean_sources), MaxLabels)),
                   <<",", " ">>)>>

\* lines 672-717: the parts render_answer joins, without the confidence line
BodyParts(answer, verbose) ==
    (IF answer.summary = << >> THEN << >> ELSE <<answer.summary>>)
    \o FactsBlock(answer)
    \o EntitiesBlock(answer, verbose)
    \o SourcesBlock(answer)

\* render_answer that leaves the confidence line out when nothing else is
\* shown
RenderAnswerNonEmpty(answer, verbose) ==
    Join(IF BodyParts(answer, verbose) = << >> THEN << >>
         ELSE BodyParts(answer, verbose) \o <<ConfidenceLine(answer)>>,
         <<"\n">>)

\* render_answer, lines 655-719
RenderAnswer(answer, verbose) ==
    Join(BodyParts(answer, verbose) \o <<ConfidenceLine(answer)>>, <<"\n">>)

\* the answers handed to render_answer
Summaries ==
    {<< >>,
     <<"A", "d", "a", " ", "B", "y", "r", "o", "n", " ", "w", "a", "s",
       " ", "a", "n", " ", "e", "n", "g", "i", "n", "e", "e", "r", ".",
       " ", "S", "h", "e", " ", "i", "s", " ", "t", "h", "e", " ", "a",
       "u", "t", "h", "o", "r", " ", "o", "f", " ", "i", "t", "?">>,
     <<"C", "o", "u", "l", "d", " ", "n", "o", "t", " ", "f", "i", "n",
       "d", " ", "e", "n", "o", "u", "g", "h", " ", "i", "n", "f", "o",
       "r", "m", "a", "t", "i", "o", "n", " ", "a", "b", "o", "u", "t",
       " ", "'", "A", "d", "a", "'", ".">>}
FactLists ==
    {<< >>,
     <<<<" ">>>>,
     <<<<"S", "h", "e", " ", "i", "s", " ", "t", "h", "e", " ", "a", "u",
         "t", "h", "o", "r", " ", "o", "f", " ", "i", "t", "?">>,
       <<" ">>,
       <<" ", "A", "d", "a", " ", "B", "y", "r", "o", "n", " ", "w", "a",
         "s", " ", "a", "n", " ", "e", "n", "g", "i", "n", "e", "e", "r",
         ".">>>>}
EntityListsShown ==
    {<< >>,
     <<[name |-> <<"e", "n", "g", "i", "n", "e", "e", "r">>,
        category |-> "ROLE"],
       [name |-> <<"A", "d", "a", " ", "B", "y", "r", "o", "n">>,
        category |-> "PERSON"]>>}
SourceLists ==
    {<< >>,
     <<<<" ">>>>,
     <<<<"w", "i", "k", "i", "p", "e", "d", "i", "a">>,
       <<"h", "t", "t", "p", "s", ":", "/", "/", "w", "w", "w", ".", "a",
         ".", "b", "/", "c">>,
       <<"a", ".", "b">>>>,
     <<<<"a">>, <<"b", ":", "q">>, <<"c">>, <<"d">>, <<"e">>>>}
Labels == {"High", "Moderate", "Low", "Very Low"}
ShownConfidences == {0, 5, 55, 100}
Answers ==
    [summary : Summaries, key_facts : FactLists, entities : EntityListsShown,
     sources : SourceLists, confidence_label : Labels,
     confidence : ShownConfidences]

NoRendering == [pc |-> "idle"]

\* one call of render_answer
RenderAnswerCall(answer, verbose) ==
    /\ rendering.pc = "idle"
    /\ rendering' = [pc |-> "rendered", answer |-> answer,
                     verbose |-> verbose,
                     output |-> RenderAnswer(answer, verbose)]
    /\ UNCHANGED nonRenderingVars

----------------------------------------------------------------------------
(* Part 4: LLMSynthesizer of synthesis/llm_synthesizer.py.  The provider   *)
(* is the HTTP endpoint of the configured LLMProvider; what it answers is  *)
(* an input of the call.                                                   *)

Providers == {"ollama", "groq", "openai", "anthropic", "none"}

\* SynthesisConfig after __init__ has loaded the keys from the environment:
\* api_key says whether the key of the selected provider is set.
SynthesisConfigs ==
    [provider : Providers, stream : BOOLEAN, api_key : BOOLEAN,
     fallback_to_raw : BOOLEAN]

\* What a method of the synthesizer does: it raises or it returns a value.
Raise(error) == [raised |-> TRUE, error |-> error, value |-> << >>]
Return(value) == [raised |-> FALSE, error |-> "", value |-> <<value>>]

\* One JSON document of a response body, or one line of a streamed body:
\* not JSON at all, or an object in which the text field the provider's
\* method reads ('response', choices[0].message.content,
\* choices[0].delta.content, content[0].text, delta.text of a
\* content_block_delta) is absent (text = << >>) or present (text = <<t>>);
\* done is the 'done' member of an Ollama chunk.
NotJson == [json |-> FALSE, text |-> << >>, done |-> FALSE]
JsonObject(text, done) == [json |-> TRUE, text |-> text, done |-> done]

\* the exchange with the endpoint: the request fails in transport, or a
\* status and a body of documents come back
Unreachable == [status |-> 0, body |-> << >>]
IsError(reply) == reply.status = 0 \/ reply.status >= 400

\* response.json(): the body parsed as one JSON document
ResponseJson(reply) ==
    IF Len(reply.body) = 1 /\ reply.body[1].json
    THEN Return(reply.body[1])
    ELSE Raise("JSONDecodeError")

\* client.post followed by raise_for_status and response.json
PostJson(reply) ==
    IF reply.status = 0 THEN Raise("ConnectError")
    ELSE IF reply.status >= 400 THEN Raise("HTTPStatusError")
    ELSE ResponseJson(reply)

MinGenerated == 10

\* _synthesize_ollama without streaming, lines 184-195
OllamaPlain(raw_facts, reply) ==
    LET parsed == PostJson(reply)
        result == parsed.value[1]
        generated == Strip(IF result.text = << >> THEN << >>
                           ELSE result.text[1])
    IN  IF parsed.raised THEN parsed
        ELSE IF generated = << >> \/ Len(generated) < MinGenerated
             THEN Return(raw_facts)
             ELSE Return(generated)

\* the lines of a streamed body that the loop of _stream_ollama reads: it
\* leaves the loop after the first JSON chunk whose 'done' is true
LinesRead(body) ==
    LET stops == {k \in 1..Len(body) : body[k].json /\ body[k].done}
    IN  IF stops = {} THEN body ELSE SubSeq(body, 1, Least(stops))

\* the token a streaming loop collects from a line; lines that do not parse
\* or lack the members are skipped (or give an empty token)
Token(line) ==
    IF line.json /\ line.text # << >> THEN line.text[1] ELSE << >>

RECURSIVE JoinTokens(_)
\* "".join(collected)
JoinTokens(lines) ==
    IF lines = << >> THEN << >>
    ELSE Token(Head(lines)) \o JoinTokens(Tail(lines))

\* client.stream and raise_for_status, lines 200-201, 352-353, 376-377
OpenStream(reply) ==
    IF reply.status = 0 THEN Raise("ConnectError")
    ELSE IF reply.status >= 400 THEN Raise("HTTPStatusError")
    ELSE Return(reply.body)

\* _stream_ollama, lines 197-215
StreamOllama(reply) ==
    LET opened == OpenStream(reply)
        joined == JoinTokens(LinesRead(opened.value[1]))
        text == Strip(joined)
    IN  IF opened.raised THEN opened
        ELSE Return(IF Len(text) >= MinGenerated THEN text ELSE joined)

\* _stream_openai_compatible and _stream_anthropic, lines 343-390
StreamChat(reply) ==
    LET opened == OpenStream(reply)
    IN  IF opened.raised THEN opened
        ELSE Return(Strip(JoinTokens(opened.value[1])))

\* _synthesize_ollama, lines 156-195
SynthesizeOllama(config, raw_facts, reply) ==
    IF config.stream THEN StreamOllama(reply)
    ELSE OllamaPlain(raw_facts, reply)

\* _synthesize_groq, _synthesize_openai and _synthesize_anthropic, lines
\* 217-337: the key, then the request, then the text of the answer
SynthesizeChat(config, reply) ==
    LET parsed == PostJson(reply)
        result == parsed.value[1]
    IN  IF ~config.api_key THEN Raise("ValueError")
        ELSE IF config.stream THEN StreamChat(reply)
        ELSE IF parsed.raised THEN parsed
        ELSE IF result.text = << >> THEN Raise("KeyError")
        ELSE Return(Strip(result.text[1]))

\* the dictionary synthesize returns
SynthesisResult(natural_answer, provider, success, fallback) ==
    [natural_answer |-> natural_answer, provider |-> provider,
     success |-> success, fallback |-> fallback]

\* LLMSynthesizer.synthesize, lines 88-154; every error of the provider
\* methods is an Exception
LLMSynthesize(config, raw_facts, reply) ==
    LET result == IF config.provider = "ollama"
                  THEN SynthesizeOllama(config, raw_facts, reply)
                  ELSE SynthesizeChat(config, reply)
    IN  IF config.provider = "none"
        THEN Return(SynthesisResult(raw_facts, "none", TRUE, TRUE))
        ELSE IF ~result.raised
        THEN Return(SynthesisResult(result.value[1], config.provider,
                                    TRUE, FALSE))
        ELSE IF config.fallback_to_raw
        THEN Return(SynthesisResult(raw_facts, "fallback", FALSE, TRUE))
        ELSE result

\* the inputs of the model
RawFacts ==
    {<< >>,
     <<"A", "d", "a", " ", "w", "a", "s", " ", "a", "n", " ", "e", "n",
       "g", "i", "n", "e", "e", "r", ".">>}
Generated ==
    {<< >>,
     <<" ", "n", "i", "n", "e", " ", "c", "h", "r", ".">>,
     <<"A", "d", "a", " ", "e", "n", "g", "i", "n", "e", "e", "r", "e",
       "d", ".", "\n">>}
Documents ==
    {NotJson} \cup
    {JsonObject(text, done) :
        text \in {<< >>} \cup {<<t>> : t \in Generated}, done \in BOOLEAN}
Bodies == UNION {[1..n -> Documents] : n \in 1..MaxLines}
Statuses == {200, 500}
Replies ==
    {Unreachable} \cup {[status |-> s, body |-> b] : s \in Statuses,
                                                      b \in Bodies}

NoFluency == [pc |-> "idle"]

\* one call of LLMSynthesizer.synthesize and the exchange it has with the
\* endpoint of the provider
LLMSynthesizeCall(config, raw_facts, reply) ==
    /\ fluency.pc = "idle"
    /\ fluency' = [pc |-> "done", config |-> config,
                   raw_facts |-> raw_facts, reply |-> reply,
                   outcome |-> LLMSynthesize(config, raw_facts, reply)]
    /\ UNCHANGED nonFluencyVars

----------------------------------------------------------------------------
(* Part 5: QueryCache of core/cache.py, called by several threads.  The    *)
(* class takes no lock: a thread can be preempted between any two          *)
(* operations on the OrderedDict and on the counters, each of which is     *)
(* one step here.                                                          *)

Threads == 1..MaxThreads

\* a key made without the lower() of line 141
MakeKeyCased(query) == Join(Split(query), <<" ">>)

\* _make_key, lines 138-142: lower case, whitespace runs to one space; the
\* digest is taken to be one-to-one on the texts of the model
MakeKey(query) == Join(Split(LowerText(query)), <<" ">>)

\* The OrderedDict is the sequence of its items, oldest first; an item is
\* the key with the (value, timestamp) pair.
Item(key, value, timestamp) ==
    [key |-> key, value |-> value, timestamp |-> timestamp]

\* key in self._store
Contains(store, key) == \E i \in 1..Len(store) : store[i].key = key

Position(store, key) == CHOOSE i \in 1..Len(store) : store[i].key = key

\* self._store.get(key): nothing, or the pair of the key
StoreGet(store, key) ==
    IF Contains(store, key) THEN <<store[Position(store, key)]>> ELSE << >>

\* del self._store[key], for a key of the store
Deleted(store, key) ==
    LET i == Position(store, key)
    IN  SubSeq(store, 1, i - 1) \o SubSeq(store, i + 1, Len(store))

\* self._store.move_to_end(key), for a key of the store
MovedToEnd(store, key) ==
    Deleted(store, key) \o <<store[Position(store, key)]>>

\* self._store[key] = (value, timestamp): a key of the store keeps its place
Assigned(store, key, value, timestamp) ==
    IF Contains(store, key)
    THEN [store EXCEPT ![Position(store, key)] =
                           Item(key, value, timestamp)]
    ELSE Append(store, Item(key, value, timestamp))

\* a thread outside the cache, and what its last call gave: result is the
\* value returned (<< >> for None), raised says that a call of the thread
\* has ended in a KeyError
IdleThread ==
    [pc |-> "idle", key |-> << >>, value |-> << >>, entry |-> << >>,
     timestamp |-> 0, count |-> 0, calls |-> 0, result |-> << >>,
     raised |-> FALSE]

ThreadAt(t, pc) == threads[t].pc = pc

\* the thread goes on to the next operation of its call
Goto(t, pc) == threads' = [threads EXCEPT ![t].pc = pc]

\* the call of the thread returns
ReturnTo(t, result) ==
    threads' = [threads EXCEPT ![t].pc = "idle", ![t].result = result,
                               ![t].calls = @ + 1]

\* the call of the thread ends in a KeyError
KeyError(t) ==
    threads' = [threads EXCEPT ![t].pc = "idle", ![t].raised = TRUE,
                               ![t].calls = @ + 1]

\* a thread outside the cache that has calls left
CanCall(t) == ThreadAt(t, "idle") /\ threads[t].calls < MaxOps

\* the thread enters a method: the key is made, lines 60, 84 and 99
Entered(t, pc, query, value) ==
    [threads EXCEPT ![t].pc = pc, ![t].key = MakeKey(query),
                    ![t].value = value, ![t].entry = << >>]

\* a thread calls get(query)
CallGet(t, query) ==
    /\ CanCall(t)
    /\ threads' = Entered(t, "get_lookup", query, << >>)
    /\ UNCHANGED <<cache, monotonic, nonCacheVars>>

\* a thread calls set(query, value)
CallSet(t, query, value) ==
    /\ CanCall(t)
    /\ threads' = Entered(t, "set_in", query, <<value>>)
    /\ UNCHANGED <<cache, monotonic, nonCacheVars>>

\* a thread calls invalidate(query)
CallInvalidate(t, query) ==
    /\ CanCall(t)
    /\ threads' = Entered(t, "inv_in", query, << >>)
    /\ UNCHANGED <<cache, monotonic, nonCacheVars>>

\* a thread calls clear(), which makes no key
CallClear(t) ==
    /\ CanCall(t)
    /\ threads' = [threads EXCEPT ![t].pc = "clear_store",
                                  ![t].key = << >>, ![t].value = << >>,
                                  ![t].entry = << >>]
    /\ UNCHANGED <<cache, monotonic, nonCacheVars>>

\* get, line 61: entry = self._store.get(key), and the test of line 63
GetLookup(t) ==
    /\ ThreadAt(t, "get_lookup")
    /\ LET entry == StoreGet(cache.store, threads[t].key)
       IN  threads' = [threads EXCEPT
                          ![t].entry = entry,
                          ![t].pc = IF entry = << >> THEN "miss_load"
                                    ELSE "get_ttl"]
    /\ UNCHANGED <<cache, monotonic, nonCacheVars>>

\* get, lines 67-70: the TTL check on the pair that was read
GetTtl(t) ==
    /\ ThreadAt(t, "get_ttl")
    /\ Goto(t, IF /\ cache.ttl > 0
                  /\ monotonic - threads[t].entry[1].timestamp > cache.ttl
               THEN "get_del" ELSE "get_move")
    /\ UNCHANGED <<cache, monotonic, nonCacheVars>>

\* get, line 72: del self._store[key]
GetDel(t) ==
    /\ ThreadAt(t, "get_del")
    /\ IF Contains(cache.store, threads[t].key)
       THEN /\ cache' = [cache EXCEPT
                            !.store = Deleted(@, threads[t].key)]
            /\ Goto(t, "miss_load")
       ELSE /\ KeyError(t)
            /\ UNCHANGED cache
    /\ UNCHANGED <<monotonic, nonCacheVars>>

\* get, line 77: self._store.move_to_end(key)
GetMove(t) ==
    /\ ThreadAt(t, "get_move")
    /\ IF Contains(cache.store, threads[t].key)
       THEN /\ cache' = [cache EXCEPT
                            !.store = MovedToEnd(@, threads[t].key)]
            /\ Goto(t, "hit_load")
       ELSE /\ KeyError(t)
            /\ UNCHANGED cache
    /\ UNCHANGED <<monotonic, nonCacheVars>>

\* self._misses += 1, lines 64 and 73: the counter is read ...
MissLoad(t) ==
    /\ ThreadAt(t, "miss_load")
    /\ threads' = [threads EXCEPT ![t].count = cache.misses,
                                  ![t].pc = "miss_store"]
    /\ UNCHANGED <<cache, monotonic, nonCacheVars>>

\* ... and written, and get returns None, lines 65 and 74
MissStore(t) ==
    /\ ThreadAt(t, "miss_store")
    /\ cache' = [cache EXCEPT !.misses = threads[t].count + 1]
    /\ ReturnTo(t, << >>)
    /\ UNCHANGED <<monotonic, nonCacheVars>>

\* self._hits += 1, line 78: the counter is read ...
HitLoad(t) ==
    /\ ThreadAt(t, "hit_load")
    /\ threads' = [threads EXCEPT ![t].count = cache.hits,
                                  ![t].pc = "hit_store"]
    /\ UNCHANGED <<cache, monotonic, nonCacheVars>>

\* ... and written, and get returns the value, line 80
HitStore(t) ==
    /\ ThreadAt(t, "hit_store")
    /\ cache' = [cache EXCEPT !.hits = threads[t].count + 1]
    /\ ReturnTo(t, <<threads[t].entry[1].value>>)
    /\ UNCHANGED <<monotonic, nonCacheVars>>

\* set, line 86: if key in self._store
SetIn(t) ==
    /\ ThreadAt(t, "set_in")
    /\ Goto(t, IF Contains(cache.store, threads[t].key) THEN "set_move"
               ELSE "set_time")
    /\ UNCHANGED <<cache, monotonic, nonCacheVars>>

\* set, line 87: self._store.move_to_end(key)
SetMove(t) ==
    /\ ThreadAt(t, "set_move")
    /\ IF Contains(cache.store, threads[t].key)
       THEN /\ cache' = [cache EXCEPT
                            !.store = MovedToEnd(@, threads[t].key)]
            /\ Goto(t, "set_time")
       ELSE /\ KeyError(t)
            /\ UNCHANGED cache
    /\ UNCHANGED <<monotonic, nonCacheVars>>

\* set, line 88: the pair (value, time.monotonic()) is made ...
SetTime(t) ==
    /\ ThreadAt(t, "set_time")
    /\ threads' = [threads EXCEPT ![t].timestamp = monotonic,
                                  ![t].pc = "set_store"]
    /\ UNCHANGED <<cache, monotonic, nonCacheVars>>

\* ... and stored: self._store[key] = ...
SetStore(t) ==
    /\ ThreadAt(t, "set_store")
    /\ cache' = [cache EXCEPT
                    !.store = Assigned(@, threads[t].key,
                                       threads[t].value[1],
                                       threads[t].timestamp)]
    /\ Goto(t, "set_len")
    /\ UNCHANGED <<monotonic, nonCacheVars>>

\* set, line 91: if len(self._store) > self.max_size
SetLen(t) ==
    /\ ThreadAt(t, "set_len")
    /\ IF Len(cache.store) > cache.max_size
       THEN Goto(t, "set_pop")
       ELSE ReturnTo(t, << >>)
    /\ UNCHANGED <<cache, monotonic, nonCacheVars>>

\* set, line 92: self._store.popitem(last=False)
SetPop(t) ==
    /\ ThreadAt(t, "set_pop")
    /\ IF cache.store # << >>
       THEN /\ cache' = [cache EXCEPT !.store = Tail(@)]
            /\ ReturnTo(t, << >>)
       ELSE /\ KeyError(t)
            /\ UNCHANGED cache
    /\ UNCHANGED <<monotonic, nonCacheVars>>

\* invalidate, line 100: if key in self._store; False is returned if not
InvalidateIn(t) ==
    /\ ThreadAt(t, "inv_in")
    /\ IF Contains(cache.store, threads[t].key)
       THEN Goto(t, "inv_del")
       ELSE ReturnTo(t, <<FALSE>>)
    /\ UNCHANGED <<cache, monotonic, nonCacheVars>>

\* invalidate, lines 101-102: del self._store[key]; return True
InvalidateDel(t) ==
    /\ ThreadAt(t, "inv_del")
    /\ IF Contains(cache.store, threads[t].key)
       THEN /\ cache' = [cache EXCEPT
                            !.store = Deleted(@, threads[t].key)]
            /\ ReturnTo(t, <<TRUE>>)
       ELSE /\ KeyError(t)
            /\ UNCHANGED cache
    /\ UNCHANGED <<monotonic, nonCacheVars>>

\* clear, line 107: self._store.clear()
ClearStore(t) ==
    /\ ThreadAt(t, "clear_store")
    /\ cache' = [cache EXCEPT !.store = << >>]
    /\ Goto(t, "clear_hits")
    /\ UNCHANGED <<monotonic, nonCacheVars>>

\* clear, line 108: self._hits = 0
ClearHits(t) ==
    /\ ThreadAt(t, "clear_hits")
    /\ cache' = [cache EXCEPT !.hits = 0]
    /\ Goto(t, "clear_misses")
    /\ UNCHANGED <<monotonic, nonCacheVars>>

\* clear, line 109: self._misses = 0
ClearMisses(t) ==
    /\ ThreadAt(t, "clear_misses")
    /\ cache' = [cache EXCEPT !.misses = 0]
    /\ ReturnTo(t, << >>)
    /\ UNCHANGED <<monotonic, nonCacheVars>>

\* time passes
Tick ==
    /\ monotonic < MaxTime
    /\ monotonic' = monotonic + 1
    /\ UNCHANGED <<cache, threads, nonCacheVars>>

\* one operation of a call of thread t
CacheStep(t) ==
    \/ GetLookup(t) \/ GetTtl(t) \/ GetDel(t) \/ GetMove(t)
    \/ MissLoad(t) \/ MissStore(t) \/ HitLoad(t) \/ HitStore(t)
    \/ SetIn(t) \/ SetMove(t) \/ SetTime(t) \/ SetStore(t)
    \/ SetLen(t) \/ SetPop(t)
    \/ InvalidateIn(t) \/ InvalidateDel(t)
    \/ ClearStore(t) \/ ClearHits(t) \/ ClearMisses(t)

\* __init__, lines 37-52: an empty cache
NewCache(max_size, ttl_seconds) ==
    [max_size |-> max_size, ttl |-> ttl_seconds, store |-> << >>,
     hits |-> 0, misses |-> 0]

\* the inputs of the model
CacheQueries == {<<"a">>, <<" ", "A", " ">>, <<"b">>}
CacheValues == {1}
TtlValues == {0, 1}

----------------------------------------------------------------------------
(* Part 5b: QueryCache used by one caller.  A call runs from its first     *)
(* line to its return with no other call in between, so a call is one      *)
(* step; the steps are those of Part 5 in the order of the code.           *)

\* a TTL check that takes the age ttl for expired
ExpiredAtTtl(c, now, entry) == c.ttl > 0 /\ now - entry.timestamp >= c.ttl

\* get, lines 67-70: the TTL check on a pair, at time now
Expired(c, now, entry) == c.ttl > 0 /\ now - entry.timestamp > c.ttl

\* what a call leaves: the cache after it and the value it returns
\* (<< >> for None)
Left(c, value) == [cache |-> c, value |-> value]

\* a get that leaves out the move_to_end of line 77
GetStoredUnmoved(c, now, key, entry) ==
    IF Expired(c, now, entry)
    THEN Left([c EXCEPT !.store = Deleted(@, key), !.misses = @ + 1], << >>)
    ELSE Left([c EXCEPT !.hits = @ + 1], <<entry.value>>)

\* get of a key that is stored, lines 67-80
GetStored(c, now, key, entry) ==
    IF Expired(c, now, entry)
    THEN Left([c EXCEPT !.store = Deleted(@, key), !.misses = @ + 1], << >>)
    ELSE Left([c EXCEPT !.store = MovedToEnd(@, key), !.hits = @ + 1],
              <<entry.value>>)

\* get, lines 58-80
CacheGet(c, now, query) ==
    IF StoreGet(c.store, MakeKey(query)) = << >>
    THEN Left([c EXCEPT !.misses = @ + 1], << >>)
    ELSE GetStored(c, now, MakeKey(query),
                   StoreGet(c.store, MakeKey(query))[1])

\* a set that leaves out the lines 91-93
Unevicted(store, max_size) == store

\* set, lines 91-93: the oldest item goes if the store is over capacity
Evicted(store, max_size) ==
    IF Len(store) > max_size THEN Tail(store) ELSE store

\* set, lines 82-95
CacheSet(c, now, query, value) ==
    [c EXCEPT !.store =
        Evicted(Assigned(IF Contains(@, MakeKey(query))
                         THEN MovedToEnd(@, MakeKey(query)) ELSE @,
                         MakeKey(query), value, now),
                c.max_size)]

\* an invalidate that answers True whether the key is stored or not
CacheInvalidateAny(c, query) ==
    IF Contains(c.store, MakeKey(query))
    THEN Left([c EXCEPT !.store = Deleted(@, MakeKey(query))], <<TRUE>>)
    ELSE Left(c, <<TRUE>>)

\* invalidate, lines 97-103
CacheInvalidate(c, query) ==
    IF Contains(c.store, MakeKey(query))
    THEN Left([c EXCEPT !.store = Deleted(@, MakeKey(query))], <<TRUE>>)
    ELSE Left(c, <<FALSE>>)

\* a clear that leaves out the lines 108-109
CacheClearStore(c) == [c EXCEPT !.store = << >>]

\* clear, lines 105-110
CacheClear(c) == [c EXCEPT !.store = << >>, !.hits = 0, !.misses = 0]

\* hit_rate, lines 120-123, as the fraction numerator / denominator; 0.0 is
\* 0 / 1
HitRate(c) ==
    IF c.hits + c.misses # 0
    THEN [numerator |-> c.hits, denominator |-> c.hits + c.misses]
    ELSE [numerator |-> 0, denominator |-> 1]

\* size, lines 116-118
Size(c) == Len(c.store)

\* the inputs of the model
SoloQueries == {<<"a">>, <<" ", "A", " ">>, <<"b">>, <<"c", "\t", "C">>}
SoloKeys == {MakeKey(query) : query \in SoloQueries}
SoloValues == {1, 2}

\* the keys of a store
KeysOf(store) == {store[i].key : i \in 1..Len(store)}

\* The caller's cache, the clock, and what the properties need of the
\* past: the number of calls, the get calls since the construction or the
\* last clear, for every key the number of the call that last used it (a
\* set of the key or a get that returned its value) and the time of its
\* last set, the last call with its time, the cache and the uses it found,
\* and the call before it.
NoCall == [op |-> "none", query |-> << >>, value |-> << >>, at |-> 0]

NewSolo(max_size, ttl) ==
    [cache |-> NewCache(max_size, ttl), now |-> 0, calls |-> 0, gets |-> 0,
     used |-> [key \in SoloKeys |-> 0],
     setat |-> [key \in SoloKeys |-> 0],
     last |-> [op |-> "none", query |-> << >>, value |-> << >>, at |-> 0,
               before |-> NewCache(max_size, ttl),
               used |-> [key \in SoloKeys |-> 0]],
     prev |-> NoCall]

\* the record of a call made now
LastCall(op, query, value) ==
    [op |-> op, query |-> query, value |-> value, at |-> solo.now,
     before |-> solo.cache, used |-> solo.used]

\* the record of the call before
PrevCall ==
    [op |-> solo.last.op, query |-> solo.last.query,
     value |-> solo.last.value, at |-> solo.last.at]

\* the caller after a get
AfterGet(query, left) ==
    [solo EXCEPT !.cache = left.cache,
                 !.calls = @ + 1,
                 !.gets = @ + 1,
                 !.used = IF left.value = << >> THEN @
                          ELSE [@ EXCEPT ![MakeKey(query)] = solo.calls + 1],
                 !.last = LastCall("get", query, left.value),
                 !.prev = PrevCall]

\* the caller calls get(query)
SoloGet(query) ==
    /\ solo.calls < MaxSoloCalls
    /\ solo' = AfterGet(query, CacheGet(solo.cache, solo.now, query))
    /\ UNCHANGED nonSoloVars

\* the caller calls set(query, value)
SoloSet(query, value) ==
    /\ solo.calls < MaxSoloCalls
    /\ solo' = [solo EXCEPT
                   !.cache = CacheSet(@, solo.now, query, value),
                   !.calls = @ + 1,
                   !.used = [@ EXCEPT ![MakeKey(query)] = solo.calls + 1],
                   !.setat = [@ EXCEPT ![MakeKey(query)] = solo.now],
                   !.last = LastCall("set", query, <<value>>),
                   !.prev = PrevCall]
    /\ UNCHANGED nonSoloVars

\* the caller after an invalidate
AfterInvalidate(query, left) ==
    [solo EXCEPT !.cache = left.cache,
                 !.calls = @ + 1,
                 !.last = LastCall("invalidate", query, left.value),
                 !.prev = PrevCall]

\* the caller calls invalidate(query)
SoloInvalidate(query) ==
    /\ solo.calls < MaxSoloCalls
    /\ solo' = AfterInvalidate(query, CacheInvalidate(solo.cache, query))
    /\ UNCHANGED nonSoloVars

\* the caller calls clear()
SoloClear ==
    /\ solo.calls < MaxSoloCalls
    /\ solo' = [solo EXCEPT !.cache = CacheClear(@),
                            !.calls = @ + 1,
                            !.gets = 0,
                            !.last = LastCall("clear", << >>, << >>),
                            !.prev = PrevCall]
    /\ UNCHANGED nonSoloVars

\* time passes between two calls
SoloTick ==
    /\ solo.now < MaxTime
    /\ solo' = [solo EXCEPT !.now = @ + 1]
    /\ UNCHANGED nonSoloVars

----------------------------------------------------------------------------
(* Part 6: ConversationBuffer (core/conversation.py).  _sessions is a      *)
(* function from the ids of the sessions to their turns, _access_order a   *)
(* sequence of ids.  A turn is its role, content and confidence (None is   *)
(* << >>); the timestamps of Turn and Session, which no method reads       *)
(* again, are left out.  A call is one step.                               *)

\* Turn, lines 23-29
Turn(role, content, confidence) ==
    [role |-> role, content |-> content, confidence |-> confidence]

\* seq[start:] of a Python list, for any integer start
SliceFrom(seq, start) ==
    SubSeq(seq,
           1 + (IF start < 0 THEN Max(Len(seq) + start, 0)
                ELSE Min(start, Len(seq))),
           Len(seq))

\* Session.last_n, lines 49-51: self.turns[-n:]
LastN(turns, n) == SliceFrom(turns, 0 - n)

PreviousConversation ==
    <<"[", "P", "r", "e", "v", "i", "o", "u", "s", " ", "c", "o", "n",
      "v", "e", "r", "s", "a", "t", "i", "o", "n", "]">>
UserLabel == <<"U", "s", "e", "r">>
AssistantLabel == <<"A", "s", "s", "i", "s", "t", "a", "n", "t">>
CurrentQuestion ==
    <<"C", "u", "r", "r", "e", "n", "t", " ", "q", "u", "e", "s", "t",
      "i", "o", "n", ":", " ">>

\* lines 72-73: the line of a turn
TurnLine(turn) ==
    (IF turn.role = "user" THEN UserLabel ELSE AssistantLabel)
    \o <<":", " ">> \o turn.content

\* lines 70-75: the header, a line for every turn, an empty last line
ContextOf(recent) ==
    Join(<<PreviousConversation>>
         \o [k \in 1..Len(recent) |-> TurnLine(recent[k])]
         \o << << >> >>,
         <<"\n">>)

\* Session.build_context, lines 53-75
BuildContext(turns, max_turns) ==
    IF LastN(turns, max_turns) = << >> THEN << >>
    ELSE ContextOf(LastN(turns, max_turns))

\* ConversationBuffer.__init__, lines 105-115
NewBuffer(max_sessions, max_turns_per_session, context_window) ==
    [max_sessions |-> max_sessions,
     max_turns_per_session |-> max_turns_per_session,
     context_window |-> context_window,
     sessions |-> << >>,
     access_order |-> << >>]

\* active_sessions, lines 185-187
ActiveSessions(b) == Cardinality(DOMAIN b.sessions)

\* self._sessions.pop(session_id, None) and del self._sessions[session_id]
Popped(sessions, session_id) ==
    [id \in DOMAIN sessions \ {session_id} |-> sessions[id]]

\* a buffer that is never made to give up a session
EnsureCapacityNever(b) == b

\* _ensure_capacity, lines 203-207
RECURSIVE EnsureCapacity(_)
EnsureCapacity(b) ==
    IF ActiveSessions(b) >= b.max_sessions /\ b.access_order # << >>
    THEN EnsureCapacity([b EXCEPT
             !.access_order = Tail(@),
             !.sessions = Popped(@, Head(b.access_order))])
    ELSE b

\* list.remove(item): the list without the first item equal to it
RECURSIVE Removed(_, _)
Removed(list, item) ==
    IF list = << >> THEN << >>
    ELSE IF Head(list) = item THEN Tail(list)
    ELSE <<Head(list)>> \o Removed(Tail(list), item)

\* lines 123-125: a session that does not exist is created
Created(b, session_id) ==
    IF session_id \notin DOMAIN b.sessions
    THEN [EnsureCapacity(b) EXCEPT !.sessions = @ @@ (session_id :> << >>)]
    ELSE b

\* an access order that takes a session in again at every access
AccessedAgain(b, session_id) ==
    [b EXCEPT !.access_order = Append(@, session_id)]

\* an access order that keeps a session where it first entered
AccessedOnce(b, session_id) ==
    IF \E k \in 1..Len(b.access_order) : b.access_order[k] = session_id
    THEN b
    ELSE [b EXCEPT !.access_order = Append(@, session_id)]

\* lines 127-130: the session becomes the most recently accessed one
Accessed(b, session_id) ==
    [b EXCEPT !.access_order =
        Append(IF \E k \in 1..Len(@) : @[k] = session_id
               THEN Removed(@, session_id) ELSE @,
               session_id)]

\* get_or_create, lines 121-131: the buffer it leaves; the session it
\* returns is sessions[session_id] of that buffer
GetOrCreate(b, session_id) == Accessed(Created(b, session_id), session_id)

\* what a call leaves: the buffer after it and the value it returns
\* (<< >> for None)
Answered(b, value) == [buf |-> b, value |-> value]

\* a delete_session that leaves out the lines 137-138
DeleteSessionOnly(b, session_id) ==
    IF session_id \in DOMAIN b.sessions
    THEN Answered([b EXCEPT !.sessions = Popped(@, session_id)], <<TRUE>>)
    ELSE Answered(b, <<FALSE>>)

\* delete_session, lines 133-140
DeleteSession(b, session_id) ==
    IF session_id \in DOMAIN b.sessions
    THEN Answered([b EXCEPT
                      !.sessions = Popped(@, session_id),
                      !.access_order =
                          IF \E k \in 1..Len(@) : @[k] = session_id
                          THEN Removed(@, session_id) ELSE @],
                  <<TRUE>>)
    ELSE Answered(b, <<FALSE>>)

\* _trim_session, lines 209-214
TrimSession(b, session_id) ==
    IF Len(b.sessions[session_id]) > b.max_turns_per_session
    THEN [b EXCEPT !.sessions[session_id] =
             SliceFrom(@, 0 - (b.max_turns_per_session \div 2))]
    ELSE b

\* the get_or_create, the append and the _trim_session of lines 147-149
\* and 157-159
AddTurn(b, session_id, turn) ==
    TrimSession([GetOrCreate(b, session_id) EXCEPT
                    !.sessions[session_id] = Append(@, turn)],
                session_id)

\* add_user_turn, lines 146-149
AddUserTurn(b, session_id, content) ==
    AddTurn(b, session_id, Turn("user", content, << >>))

\* add_assistant_turn, lines 151-159
AddAssistantTurn(b, session_id, content, confidence) ==
    AddTurn(b, session_id, Turn("assistant", content, confidence))

\* lines 175-179, for the context of a session with turns
Enriched(context, current_query) ==
    IF context = << >> THEN current_query
    ELSE context \o CurrentQuestion \o current_query

\* an enrich_query that takes the session from get_or_create
EnrichQueryCreating(b, session_id, current_query) ==
    IF Len(GetOrCreate(b, session_id).sessions[session_id]) = 0
    THEN Answered(GetOrCreate(b, session_id), current_query)
    ELSE Answered(GetOrCreate(b, session_id),
                  Enriched(BuildContext(b.sessions[session_id],
                                        b.context_window),
                           current_query))

\* enrich_query, lines 165-179: it reads _sessions and writes nothing
EnrichQuery(b, session_id, current_query) ==
    IF session_id \notin DOMAIN b.sessions
    THEN Answered(b, current_query)
    ELSE IF Len(b.sessions[session_id]) = 0
    THEN Answered(b, current_query)
    ELSE Answered(b, Enriched(BuildContext(b.sessions[session_id],
                                           b.context_window),
                              current_query))

\* session_info, lines 189-197, without created_at
SessionInfo(b, session_id) ==
    IF session_id \notin DOMAIN b.sessions THEN Answered(b, << >>)
    ELSE Answered(b, <<[session_id |-> session_id,
                        num_turns |-> Len(b.sessions[session_id])]>>)

\* the inputs of the model
SessionIds == {"s1", "s2", "s3"}
Contents == {<<"p">>, <<"q">>}
TurnConfidences == {<< >>, <<1>>}
CurrentQueries == {<<"w", "?">>}
ContextWindows == {1, 6}

\* The caller's buffer and what the properties need of the past: the
\* number of calls, for every session id the number of the call that last
\* accessed it (a get_or_create or an add of a turn), and the last call
\* with the buffer and the accesses it found.
NewCaller(b) ==
    [buf |-> b, calls |-> 0,
     accessed |-> [id \in SessionIds |-> 0],
     last |-> [op |-> "none", session_id |-> "", query |-> << >>,
               value |-> << >>, before |-> b,
               accessed |-> [id \in SessionIds |-> 0]]]

\* the record of a call made now; query is the current_query of an
\* enrich_query
BufferCall(op, session_id, value) ==
    [op |-> op, session_id |-> session_id, query |-> << >>, value |-> value,
     before |-> buffer.buf, accessed |-> buffer.accessed]

\* the caller after a call that accesses the session
AfterAccess(op, session_id, b) ==
    [buffer EXCEPT !.buf = b,
                   !.calls = @ + 1,
                   !.accessed[session_id] = buffer.calls + 1,
                   !.last = BufferCall(op, session_id, << >>)]

\* the caller after a call that returns a value
AfterAnswer(op, session_id, answered) ==
    [buffer EXCEPT !.buf = answered.buf,
                   !.calls = @ + 1,
                   !.last = BufferCall(op, session_id, answered.value)]

\* the session of a caller that uses one session
LongSessionId == "s1"

\* the caller calls get_or_create(session_id)
BufferGetOrCreate(session_id) ==
    /\ buffer.calls < MaxBufferCalls
    /\ buffer' = AfterAccess("get_or_create", session_id,
                             GetOrCreate(buffer.buf, session_id))
    /\ UNCHANGED nonBufferVars

\* the caller calls add_user_turn(session_id, content)
BufferAddUserTurn(session_id, content) ==
    /\ buffer.calls < MaxBufferCalls
    /\ buffer' = AfterAccess("add_user_turn", session_id,
                             AddUserTurn(buffer.buf, session_id, content))
    /\ UNCHANGED nonBufferVars

\* the caller calls add_assistant_turn(session_id, content, confidence)
BufferAddAssistantTurn(session_id, content, confidence) ==
    /\ buffer.calls < MaxBufferCalls
    /\ buffer' = AfterAccess("add_assistant_turn", session_id,
                             AddAssistantTurn(buffer.buf, session_id,
                                              content, confidence))
    /\ UNCHANGED nonBufferVars

\* the caller adds turns to one session only, up to MaxLongCalls of them
LongAddUserTurn(content) ==
    /\ buffer.calls < MaxLongCalls
    /\ buffer' = AfterAccess("add_user_turn", LongSessionId,
                             AddUserTurn(buffer.buf, LongSessionId, content))
    /\ UNCHANGED nonBufferVars

LongAddAssistantTurn(content, confidence) ==
    /\ buffer.calls < MaxLongCalls
    /\ buffer' = AfterAccess("add_assistant_turn", LongSessionId,
                             AddAssistantTurn(buffer.buf, LongSessionId,
                                              content, confidence))
    /\ UNCHANGED nonBufferVars

\* the caller calls delete_session(session_id)
BufferDeleteSession(session_id) ==
    /\ buffer.calls < MaxBufferCalls
    /\ buffer' = AfterAnswer("delete_session", session_id,
                             DeleteSession(buffer.buf, session_id))
    /\ UNCHANGED nonBufferVars

\* the caller calls enrich_query(session_id, current_query)
BufferEnrichQuery(session_id, current_query) ==
    /\ buffer.calls < MaxBufferCalls
    /\ buffer' = [AfterAnswer("enrich_query", session_id,
                              EnrichQuery(buffer.buf, session_id,
                                          current_query))
                      EXCEPT !.last.query = current_query]
    /\ UNCHANGED nonBufferVars

\* the caller calls session_info(session_id)
BufferSessionInfo(session_id) ==
    /\ buffer.calls < MaxBufferCalls
    /\ buffer' = AfterAnswer("session_info", session_id,
                             SessionInfo(buffer.buf, session_id))
    /\ UNCHANGED nonBufferVars

----------------------------------------------------------------------------
(* Part 7: the local-knowledge fallback of NetworkInterrogator,            *)
(* _simulated_search_enhanced, on the text of the query.  The values of    *)
(* the topic table are strings; the content of a record is a value of the  *)
(* table, or the notice of lines 379-385 about a query.                    *)

\* str.replace(old, ""): the occurrences of old are taken out from left to
\* right
RECURSIVE Removing(_, _)
Removing(text, old) ==
    IF Len(text) < Len(old) THEN text
    ELSE IF SubSeq(text, 1, Len(old)) = old
    THEN Removing(SubSeq(text, Len(old) + 1, Len(text)), old)
    ELSE <<Head(text)>> \o Removing(Tail(text), old)

AnswerWord == <<"a", "n", "s", "w", "e", "r", ":">>
DocumentationWord ==
    <<"d", "o", "c", "u", "m", "e", "n", "t", "a", "t", "i", "o", "n">>

\* line 358
CleanQuery(query) ==
    Strip(Removing(Removing(query, AnswerWord), DocumentationWord))

\* lines 361-366: the table, in the order of the dict
KnowledgeBase ==
    <<
     [key |->
<<"p", "y", "t", "h", "o", "n">>,
      value |->
        "Python is a high-level, interpreted programming language created by Guido van Rossum and first released in 1991. It emphasizes code readability with significant whitespace. Python supports multiple programming paradigms including procedural, object-oriented, and functional programming."],
     [key |->
<<"q", "u", "a", "n", "t", "u", "m", " ", "c", "o", "m", "p", "u",
          "t", "i", "n", "g">>,
      value |->
        "Quantum computing is a type of computation that uses quantum mechanical phenomena like superposition and entanglement. Unlike classical computers that use bits (0 or 1), quantum computers use quantum bits or qubits that can exist in multiple states simultaneously."],
     [key |->
<<"a", "r", "t", "i", "f", "i", "c", "i", "a", "l", " ", "i", "n",
          "t", "e", "l", "l", "i", "g", "e", "n", "c", "e">>,
      value |->
        "Artificial Intelligence (AI) is the simulation of human intelligence processes by machines, especially computer systems. These processes include learning, reasoning, and self-correction. AI applications include expert systems, natural language processing, speech recognition and machine vision."],
     [key |->
<<"m", "a", "c", "h", "i", "n", "e", " ", "l", "e", "a", "r", "n",
          "i", "n", "g">>,
      value |->
        "Machine learning is a subset of artificial intelligence that provides systems the ability to automatically learn and improve from experience without being explicitly programmed. It focuses on developing computer programs that can access data and use it to learn for themselves."]
    >>

\* lines 380-384: the text of the notice after its first line
NoticeText ==
    "This is enhanced simulated content for Velocity testing. In production, this would come from real search APIs, databases, and network sources. The Velocity Paradigm emphasizes real-time network interrogation rather than pre-trained knowledge storage."

\* a test of a key that looks for the key in the query only
KeyInQuery(key, query_lower) == IsSubstring(key, query_lower)

\* line 374: the test of a key against the lower-cased query
KeyMatches(key, query_lower) ==
    IsSubstring(key, query_lower) \/ IsSubstring(query_lower, key)

\* lines 373-377: the numbers of the keys that match, in table order
Matching(query_lower) ==
    {k \in 1..Len(KnowledgeBase) :
        KeyMatches(KnowledgeBase[k].key, query_lower)}

\* content of the record: a value of the table, or the notice about a
\* query
TopicContent(value) == [notice |-> FALSE, about |-> << >>, text |-> value]
NoticeContent(clean_query) ==
    [notice |-> TRUE, about |-> clean_query, text |-> NoticeText]

KnowledgeBaseSource ==
    <<"k", "n", "o", "w", "l", "e", "d", "g", "e", "_", "b", "a", "s", "e",
      ":">>

\* lines 389-398: the record
SimulatedRecord(query, matched_key, content) ==
    [success |-> TRUE,
     query |-> query,
     source |-> KnowledgeBaseSource \o matched_key,
     content |-> content,
     metadata |-> [simulated |-> TRUE, matched_key |-> matched_key]]

\* lines 368-387 for the keys that match: the first of them, or none
Looked(query, clean_query, matching) ==
    IF matching # {}
    THEN SimulatedRecord(query, KnowledgeBase[Least(matching)].key,
             TopicContent(KnowledgeBase[Least(matching)].value))
    ELSE SimulatedRecord(query, clean_query, NoticeContent(clean_query))

\* lines 358-387 for the cleaned query
Lookup(query, clean_query) ==
    Looked(query, clean_query, Matching(LowerText(clean_query)))

\* _simulated_search_enhanced, lines 348-399, for the text of a query
SimulatedSearchText(query) == Lookup(query, CleanQuery(query))

\* the queries of the model: a beginning, a topic and an end
QueryPrefixes ==
    {<< >>,
     <<"a", "n", "s", "w", "e", "r", ":">>,
     <<"T", "e", "l", "l", " ", "m", "e", " ", "a", "b", "o", "u", "t", " ">>}
QueryTopics ==
    {<< >>,
     <<"p", "y", "t", "h", "o", "n">>,
     <<"P", "y", "t", "h", "o", "n">>,
     <<"p", "y">>,
     <<"q", "u", "a", "n", "t", "u", "m", " ", "c", "o", "m", "p", "u", "t",
       "i", "n", "g">>,
     <<"m", "a", "c", "h", "i", "n", "e", " ", "l", "e", "a", "r", "n", "i",
       "n", "g">>,
     <<"l", "e", "a", "r", "n">>,
     <<"a", "r", "t", "i", "f", "i", "c", "i", "a", "l", " ", "i", "n", "t",
       "e", "l", "l", "i", "g", "e", "n", "c", "e">>,
     <<"i", "n", "t", "e", "l", "l", "i", "g", "e", "n", "c", "e", " ", "a",
       "n", "d", " ", "m", "a", "c", "h", "i", "n", "e", " ", "l", "e", "a",
       "r", "n", "i", "n", "g">>,
     <<"r", "u", "s", "t">>,
     <<"M", "a", "c", "h", "i", "n", "e", " ", "L", "e", "a", "r", "n", "i",
       "n", "g", " ", "w", "i", "t", "h", " ", "P", "y", "t", "h", "o", "n">>}
QuerySuffixes ==
    {<< >>,
     <<" ", "d", "o", "c", "u", "m", "e", "n", "t", "a", "t", "i", "o", "n">>,
     <<" ">>}
QueryTextsOfFallback ==
    {prefix \o topic \o suffix :
        prefix \in QueryPrefixes, topic \in QueryTopics,
        suffix \in QuerySuffixes}

\* one call of _simulated_search_enhanced; the records of the calls are
\* kept in order
SimulatedSearchCall(query) ==
    /\ Len(simulated) < MaxLookups
    /\ simulated' = Append(simulated, SimulatedSearchText(query))
    /\ UNCHANGED nonSimulatedVars

----------------------------------------------------------------------------
(* Part 8: nlp_engine.compose_answer on lists of scored sentences.         *)
(* compose_answer reads the text, the index and the two flags of a         *)
(* Sentence; the list is in the order of the scores.                       *)

\* the texts a sentence of the model can have, by document index: the
\* sentences 0 and 2 can be duplicates of each other
ComposeTexts ==
    <<{<<"t", "h", "e", " ", "c", "a", "t", " ", "s", "a", "t">>},
      {<<"a", " ", "d", "o", "g", " ", "r", "a", "n", ".">>},
      {<<"t", "h", "e", " ", "c", "a", "t", " ", "s", "a", "t">>,
       <<"B", "i", "r", "d", "s", " ", "f", "l", "y", "!">>}>>

\* the document indexes of a scored list: any order, no index twice
ScoreOrders ==
    {order \in UNION {[1..n -> 0..(MaxSentences - 1)] :
                          n \in 0..MaxSentences} :
        \A i, j \in 1..Len(order) : order[i] = order[j] => i = j}

\* the Sentence of a document index in a scored list
ComposeSentence(order, texts, definitions, biographicals, k) ==
    [text |-> texts[order[k] + 1],
     index |-> order[k],
     score |-> Len(order) - k,
     is_definition |-> order[k] \in definitions,
     is_biographical |-> order[k] \in biographicals]

QueryTypes ==
    {"biographical", "definition", "comparative", "procedural", "causal",
     "general"}

ComposeQueries ==
    {<<"w", "h", "o", " ", "i", "s", " ", "A", "d", "a", " ", "B", "y", "r",
      "o", "n", "?">>,
     << >>}

\* the arguments of a call of compose_answer that has not returned
NoSummary(scored, query, query_type, max_sentences) ==
    [pc |-> "idle", scored |-> scored, query |-> query,
     query_type |-> query_type, max_sentences |-> max_sentences,
     summary |-> << >>]

\* one call of compose_answer
ComposeAnswerCall ==
    /\ composed.pc = "idle"
    /\ composed' = [composed EXCEPT
           !.pc = "done",
           !.summary = ComposeAnswer(composed.scored, composed.query,
                           composed.query_type, composed.max_sentences)]
    /\ UNCHANGED nonComposedVars

----------------------------------------------------------------------------
(* Part 9: nlp_engine._detect_query_type on queries made of words.         *)

\* the words of the queries of the model: trigger phrases of every type,
\* some with capitals or punctuation, and words that only hold a trigger
QueryWords ==
    {<<"w", "h", "o", " ", "i", "s">>,
     <<"W", "h", "o", " ", "W", "a", "s">>,
     <<"k", "i", "m", "d", "i", "r">>,
     <<"w", "h", "a", "t", " ", "i", "s">>,
     <<"d", "e", "f", "i", "n", "e">>,
     <<"n", "e", "d", "i", "r">>,
     <<"v", "s">>,
     <<"d", "i", "f", "f", "e", "r", "e", "n", "c", "e">>,
     <<"h", "o", "w", " ", "t", "o">>,
     <<"s", "t", "e", "p", "s">>,
     <<"w", "h", "y">>,
     <<"N", "e", "d", "e", "n">>,
     <<"w", "h", "o", "i", "s">>,
     <<"w", "h", "y", "e">>,
     <<"A", "d", "a">>,
     <<"s", "e", "b", "e", "p", "?">>}

\* the queries of the model: up to MaxWords words with a space between them
QueriesOfWords ==
    {<< >>}
    \cup {Join(ws, <<" ">>) :
             ws \in UNION {[1..n -> QueryWords] : n \in 1..MaxWords}}

\* a query whose type has not been detected
Undetected(query) == [pc |-> "idle", query |-> query, query_type |-> ""]

\* one call of _detect_query_type
DetectQueryTypeCall ==
    /\ detected.pc = "idle"
    /\ detected' = [detected EXCEPT
           !.pc = "done",
           !.query_type = DetectQueryType(detected.query)]
    /\ UNCHANGED nonDetectedVars

----------------------------------------------------------------------------
(* Part 10: a Session of conversation.py on its own: add_user,             *)
(* add_assistant and build_context.                                        *)

\* a Session without turns; last is the last call of build_context, with
\* the turns it was made on
NewSession == [turns |-> << >>, last |-> << >>]

\* Session.add_user, lines 43-44
SessionAddUser(content) ==
    /\ Len(session.turns) < MaxSessionTurns
    /\ session' = [session EXCEPT
           !.turns = Append(@, Turn("user", content, << >>))]
    /\ UNCHANGED nonSessionVars

\* Session.add_assistant, lines 46-47
SessionAddAssistant(content, confidence) ==
    /\ Len(session.turns) < MaxSessionTurns
    /\ session' = [session EXCEPT
           !.turns = Append(@, Turn("assistant", content, confidence))]
    /\ UNCHANGED nonSessionVars

\* Session.build_context(max_turns), lines 53-75
SessionBuildContext(max_turns) ==
    /\ session' = [session EXCEPT
           !.last = <<[max_turns |-> max_turns,
                       turns |-> session.turns,
                       context |-> BuildContext(session.turns, max_turns)]>>]
    /\ UNCHANGED nonSessionVars

----------------------------------------------------------------------------
(* Specifications.                                                         *)

NetInit ==
    /\ queries_executed = 0
    /\ errors = 0
    /\ total_latency = 0
    /\ calls = [c \in CallIds |-> IdleCall]

EvalInit ==
    /\ hypotheses_evaluated = 0
    /\ total_evaluation_time = 0
    /\ evaluation = NoEvaluation

\* deep_clean not called
CleaningIdle == cleaning = NoCleaning
\* score_sentences not called
RankingIdle == ranking = NoRanking
\* an AnswerEngine made with the default arguments, lines 560-561
EngineIdle == engine = [max_summary_sentences |-> 5, max_key_facts |-> 5]
\* synthesize not called
SynthesisIdle == synthesis = NoSynthesis
\* render_answer not called
RenderingIdle == rendering = NoRendering
\* LLMSynthesizer.synthesize not called
FluencyIdle == fluency = NoFluency
\* a QueryCache made with the default arguments, lines 39-40, and no call
CacheIdle ==
    /\ cache = NewCache(256, 300)
    /\ monotonic = 0
    /\ threads = [t \in Threads |-> IdleThread]
\* the caller's QueryCache, made with the default arguments, and no call
SoloIdle == solo = NewSolo(256, 300)
\* the caller's ConversationBuffer, made with the default arguments, and no
\* call
BufferIdle == buffer = NewCaller(NewBuffer(100, 50, 6))
\* no call of the fallback on a query text
SimulatedIdle == simulated = << >>
\* no call of compose_answer on a scored list
ComposedIdle == composed = NoSummary(<< >>, << >>, "general", 5)
\* no call of _detect_query_type on a query of words
DetectedIdle == detected = Undetected(<< >>)
\* a Session that is not used
SessionIdle == session = NewSession

Init ==
    /\ NetInit
    /\ SessionIdle
    /\ DetectedIdle
    /\ ComposedIdle
    /\ SimulatedIdle
    /\ RankingIdle
    /\ EngineIdle
    /\ SynthesisIdle
    /\ RenderingIdle
    /\ FluencyIdle
    /\ CacheIdle
    /\ SoloIdle
    /\ BufferIdle
    /\ EvalInit
    /\ cognitive = EmptyState
    /\ CleaningIdle

Next ==
    \/ \E c \in CallIds, q \in QueryLists, lat \in Latencies :
          SearchParallel(c, q, lat)
    \/ \E c \in CallIds, i \in 1..max_parallel : TaskStart(c, i)
    \/ \E c \in CallIds, i \in 1..max_parallel, resp \in Responses :
          PrimaryResponse(c, i, resp)
    \/ \E c \in CallIds, i \in 1..max_parallel, resp \in Responses :
          SecondaryResponse(c, i, resp)
    \/ \E c \in CallIds, i \in 1..max_parallel : FallbackWake(c, i)
    \/ \E c \in CallIds, lat \in Latencies : GatherDone(c, lat)

Spec == Init /\ [][Next]_vars

\* The event loop runs every task that is ready, and every outbound request
\* eventually returns, fails or times out.
Fairness ==
    /\ \A c \in CallIds, i \in 1..max_parallel : WF_vars(TaskStep(c, i))
    /\ \A c \in CallIds : WF_vars(\E lat \in Latencies : GatherDone(c, lat))

FairSpec == Spec /\ Fairness

\* the evaluator on its own, for every CognitiveState of the model
InitEval ==
    /\ NetInit
    /\ SessionIdle
    /\ DetectedIdle
    /\ ComposedIdle
    /\ SimulatedIdle
    /\ RankingIdle
    /\ EngineIdle
    /\ SynthesisIdle
    /\ RenderingIdle
    /\ FluencyIdle
    /\ CacheIdle
    /\ SoloIdle
    /\ BufferIdle
    /\ EvalInit
    /\ cognitive \in CognitiveStates
    /\ CleaningIdle

NextEval ==
    \E h \in HypothesisLists, elapsed \in Latencies :
        EvaluateParallel(h, elapsed)

SpecEval == InitEval /\ [][NextEval]_vars

\* deep_clean on its own, for every text of the model
InitClean ==
    /\ NetInit
    /\ SessionIdle
    /\ DetectedIdle
    /\ ComposedIdle
    /\ SimulatedIdle
    /\ EvalInit
    /\ cognitive = EmptyState
    /\ RankingIdle
    /\ EngineIdle
    /\ SynthesisIdle
    /\ RenderingIdle
    /\ FluencyIdle
    /\ CacheIdle
    /\ SoloIdle
    /\ BufferIdle
    /\ cleaning \in [text : Texts, cleaned : {<< >>}]

NextClean == DeepCleanCall

SpecClean == InitClean /\ [][NextClean]_vars

\* score_sentences and extract_key_facts on their own
InitRank ==
    /\ NetInit
    /\ SessionIdle
    /\ DetectedIdle
    /\ ComposedIdle
    /\ SimulatedIdle
    /\ EvalInit
    /\ cognitive = EmptyState
    /\ CleaningIdle
    /\ RankingIdle
    /\ EngineIdle
    /\ SynthesisIdle
    /\ RenderingIdle
    /\ FluencyIdle
    /\ CacheIdle
    /\ SoloIdle
    /\ BufferIdle

NextRank ==
    \/ \E sentences \in SentenceLists, query \in QueryTexts,
          query_entities \in EntityLists :
          ScoreSentencesCall(sentences, query, query_entities)
    \/ \E max_facts \in 0..MaxFacts : ExtractKeyFactsCall(max_facts)

SpecRank == InitRank /\ [][NextRank]_vars

\* any AnswerEngine of the model, synthesize not called
InitSynth ==
    /\ NetInit
    /\ SessionIdle
    /\ DetectedIdle
    /\ ComposedIdle
    /\ SimulatedIdle
    /\ EvalInit
    /\ cognitive = EmptyState
    /\ CleaningIdle
    /\ RankingIdle
    /\ engine \in Engines
    /\ SynthesisIdle
    /\ RenderingIdle
    /\ FluencyIdle
    /\ CacheIdle
    /\ SoloIdle
    /\ BufferIdle

\* one synthesize call on a new engine, for every input of the model
NextSynth ==
    \E raw_texts \in RawTextLists, query \in SynthesisQueries,
       sources \in SourceArguments, confidence \in ConfidenceValues :
        /\ synthesis.calls = 0
        /\ SynthesizeCall(raw_texts, query, sources, confidence)

SpecSynth == InitSynth /\ [][NextSynth]_vars

\* up to MaxCalls synthesize calls on one engine
NextEngine ==
    \E raw_texts \in FewRawTextLists, query \in FewQueries,
       sources \in SourceArguments, confidence \in FewConfidences :
        SynthesizeCall(raw_texts, query, sources, confidence)

SpecEngine == InitSynth /\ [][NextEngine]_vars

\* render_answer on every answer of the model, plain and verbose
NextRender ==
    \E answer \in Answers, verbose \in BOOLEAN :
        RenderAnswerCall(answer, verbose)

SpecRender == Init /\ [][NextRender]_vars

\* LLMSynthesizer.synthesize on its own, for every configuration, text and
\* exchange of the model
NextFluency ==
    \E config \in SynthesisConfigs, raw_facts \in RawFacts,
       reply \in Replies :
        LLMSynthesizeCall(config, raw_facts, reply)

SpecFluency == Init /\ [][NextFluency]_vars

\* the QueryCache on its own: threads that call it, preempted at any point
InitCache ==
    /\ NetInit
    /\ SessionIdle
    /\ DetectedIdle
    /\ ComposedIdle
    /\ SimulatedIdle
    /\ EvalInit
    /\ cognitive = EmptyState
    /\ CleaningIdle
    /\ RankingIdle
    /\ EngineIdle
    /\ SynthesisIdle
    /\ RenderingIdle
    /\ FluencyIdle
    /\ SoloIdle
    /\ BufferIdle
    /\ cache \in {NewCache(max_size, ttl) : max_size \in 1..MaxSize,
                                           ttl \in TtlValues}
    /\ monotonic = 0
    /\ threads = [t \in Threads |-> IdleThread]

NextCache ==
    \/ \E t \in Threads, query \in CacheQueries : CallGet(t, query)
    \/ \E t \in Threads, query \in CacheQueries, value \in CacheValues :
          CallSet(t, query, value)
    \/ \E t \in Threads, query \in CacheQueries : CallInvalidate(t, query)
    \/ \E t \in Threads : CallClear(t)
    \/ \E t \in Threads : CacheStep(t)
    \/ Tick

SpecCache == InitCache /\ [][NextCache]_vars

\* the QueryCache of one caller, for every max_size and ttl of the model
InitSolo ==
    /\ NetInit
    /\ SessionIdle
    /\ DetectedIdle
    /\ ComposedIdle
    /\ SimulatedIdle
    /\ EvalInit
    /\ cognitive = EmptyState
    /\ CleaningIdle
    /\ RankingIdle
    /\ EngineIdle
    /\ SynthesisIdle
    /\ RenderingIdle
    /\ FluencyIdle
    /\ CacheIdle
    /\ solo \in {NewSolo(max_size, ttl) : max_size \in 0..MaxSoloSize,
                                         ttl \in TtlValues}
    /\ BufferIdle

NextSolo ==
    \/ \E query \in SoloQueries : SoloGet(query)
    \/ \E query \in SoloQueries, value \in SoloValues : SoloSet(query, value)
    \/ \E query \in SoloQueries : SoloInvalidate(query)
    \/ SoloClear
    \/ SoloTick

SpecSolo == InitSolo /\ [][NextSolo]_vars

\* the ConversationBuffer of one caller, for every max_sessions,
\* max_turns_per_session and context_window of the model
InitBuffer ==
    /\ NetInit
    /\ SessionIdle
    /\ DetectedIdle
    /\ ComposedIdle
    /\ SimulatedIdle
    /\ EvalInit
    /\ cognitive = EmptyState
    /\ CleaningIdle
    /\ RankingIdle
    /\ EngineIdle
    /\ SynthesisIdle
    /\ RenderingIdle
    /\ FluencyIdle
    /\ CacheIdle
    /\ SoloIdle
    /\ buffer \in {NewCaller(NewBuffer(max_sessions, max_turns, window)) :
                      max_sessions \in 1..MaxBufferSessions,
                      max_turns \in 1..MaxBufferTurns,
                      window \in ContextWindows}

NextBuffer ==
    \/ \E session_id \in SessionIds : BufferGetOrCreate(session_id)
    \/ \E session_id \in SessionIds, content \in Contents :
           BufferAddUserTurn(session_id, content)
    \/ \E session_id \in SessionIds, content \in Contents,
          confidence \in TurnConfidences :
           BufferAddAssistantTurn(session_id, content, confidence)
    \/ \E session_id \in SessionIds : BufferDeleteSession(session_id)
    \/ \E session_id \in SessionIds, current_query \in CurrentQueries :
           BufferEnrichQuery(session_id, current_query)
    \/ \E session_id \in SessionIds : BufferSessionInfo(session_id)

SpecBuffer == InitBuffer /\ [][NextBuffer]_vars

\* _simulated_search_enhanced on the query texts of the model
NextSimulated ==
    \E query \in QueryTextsOfFallback : SimulatedSearchCall(query)

SpecSimulated == Init /\ [][NextSimulated]_vars

\* compose_answer on the scored lists of the model
InitComposed ==
    /\ NetInit
    /\ SessionIdle
    /\ DetectedIdle
    /\ SimulatedIdle
    /\ RankingIdle
    /\ EngineIdle
    /\ SynthesisIdle
    /\ RenderingIdle
    /\ FluencyIdle
    /\ CacheIdle
    /\ SoloIdle
    /\ BufferIdle
    /\ EvalInit
    /\ cognitive = EmptyState
    /\ CleaningIdle
    /\ \E order \in ScoreOrders,
          texts \in {t \in [1..MaxSentences -> UNION {ComposeTexts[k] :
                                   k \in 1..MaxSentences}] :
                        \A k \in 1..MaxSentences : t[k] \in ComposeTexts[k]},
          definitions \in SUBSET (0..(MaxSentences - 1)),
          biographicals \in SUBSET (0..(MaxSentences - 1)),
          query \in ComposeQueries,
          query_type \in QueryTypes,
          max_sentences \in 0..MaxSentences :
        composed = NoSummary(
            [k \in 1..Len(order) |->
                ComposeSentence(order, texts, definitions, biographicals, k)],
            query, query_type, max_sentences)

NextComposed == ComposeAnswerCall

SpecComposed == InitComposed /\ [][NextComposed]_vars

\* _detect_query_type on the queries of the model
InitDetected ==
    /\ NetInit
    /\ SessionIdle
    /\ SimulatedIdle
    /\ ComposedIdle
    /\ RankingIdle
    /\ EngineIdle
    /\ SynthesisIdle
    /\ RenderingIdle
    /\ FluencyIdle
    /\ CacheIdle
    /\ SoloIdle
    /\ BufferIdle
    /\ EvalInit
    /\ cognitive = EmptyState
    /\ CleaningIdle
    /\ \E query \in QueriesOfWords : detected = Undetected(query)

NextDetected == DetectQueryTypeCall

SpecDetected == InitDetected /\ [][NextDetected]_vars

\* a Session used on its own
NextSession ==
    \/ \E content \in Contents : SessionAddUser(content)
    \/ \E content \in Contents, confidence \in TurnConfidences :
           SessionAddAssistant(content, confidence)
    \/ \E max_turns \in 0..(MaxSessionTurns + 1) :
           SessionBuildContext(max_turns)

SpecSession == Init /\ [][NextSession]_vars

\* a ConversationBuffer of one caller that adds turns to one session
InitLongSession ==
    /\ NetInit
    /\ SessionIdle
    /\ DetectedIdle
    /\ ComposedIdle
    /\ SimulatedIdle
    /\ RankingIdle
    /\ EngineIdle
    /\ SynthesisIdle
    /\ RenderingIdle
    /\ FluencyIdle
    /\ CacheIdle
    /\ SoloIdle
    /\ EvalInit
    /\ cognitive = EmptyState
    /\ CleaningIdle
    /\ \E max_turns_per_session \in 1..MaxLongTurns :
           buffer = NewCaller(NewBuffer(100, max_turns_per_session, 6))

NextLongSession ==
    \/ \E content \in Contents : LongAddUserTurn(content)
    \/ \E content \in Contents, confidence \in TurnConfidences :
           LongAddAssistantTurn(content, confidence)

SpecLongSession == InitLongSession /\ [][NextLongSession]_vars

----------------------------------------------------------------------------
(* Properties of NetworkInterrogator.                                      *)

\* the tasks whose coroutine still exists: those of a gather in progress
Live == {ci \in CallIds \X (1..max_parallel) :
            /\ calls[ci[1]].pc = "gathering"
            /\ ci[2] <= Len(calls[ci[1]].tasks)}
TaskOf(ci) == calls[ci[1]].tasks[ci[2]]

Failed(a) == a.out \in {"timeout", "raise"}

\* both network sources were attempted and both failed
BothFailed(t) ==
    /\ Len(t.attempts) >= 2
    /\ Failed(t.attempts[1])
    /\ Failed(t.attempts[2])

\* C1: whenever _execute_query, run on a query string, has seen the primary
\* and the secondary source fail (by timing out or by raising, which is also
\* how an unusable body ends), it returns the successful record of the
\* local-knowledge fallback; and no task ever ends in an exception.
C1_FallbackAlwaysSucceeds ==
    \A ci \in Live :
        LET t == TaskOf(ci) IN
        /\ t.state # "raised"
        /\ (t.pc = "done" /\ IsStr(t.query) /\ BothFailed(t))
              => /\ t.state = "returned"
                 /\ t.result = SuccessRecord(t.query, "knowledge_base")

C1_Witness ==
    \E ci \in Live :
        LET t == TaskOf(ci) IN
        /\ t.pc = "done" /\ IsStr(t.query)
        /\ t.attempts[1].out = "raise" /\ t.attempts[2].out = "timeout"
        /\ t.result.source = "knowledge_base"

\* C2: in every task the attempts are a prefix of primary, secondary,
\* fallback; every attempt but the last has finished in failure; only the
\* last can be pending; and a successful attempt is the last one, its
\* record being what the task has returned.
C2_StrictlySequentialChain ==
    \A ci \in Live :
        LET t == TaskOf(ci)
            n == Len(t.attempts)
        IN  /\ n <= Len(Sources)
            /\ \A k \in 1..n : t.attempts[k].src = Sources[k]
            /\ \A k \in 1..n : k < n => Failed(t.attempts[k])
            /\ t.pc = "start" <=> n = 0
            /\ (n > 0 /\ t.attempts[n].out = "pending")
                  => t.pc = t.attempts[n].src /\ t.state = "running"
            /\ (n > 0 /\ t.attempts[n].out = "ok")
                  => /\ t.pc = "done" /\ t.state = "returned"
                     /\ t.result = SuccessRecord(t.query, t.attempts[n].src)
            /\ (n > 0 /\ t.attempts[n].out # "pending") => t.pc = "done"

C2_Witness ==
    \E ci \in Live :
        LET t == TaskOf(ci) IN
        /\ t.pc = "done" /\ Len(t.attempts) = 2
        /\ Failed(t.attempts[1])
        /\ t.result.source = "duckduckgo"

\* C3: a call that was given N queries has exactly min(N, max_parallel)
\* tasks, one for each of the first queries in order; nothing else is ever
\* executed for it, so it raises queries_executed by at most max_parallel
\* and returns at most max_parallel records.
C3_AtMostMaxParallel ==
    \A c \in CallIds :
        LET n == Min(Len(calls[c].queries), max_parallel) IN
        /\ Len(calls[c].tasks) = n
        /\ \A i \in 1..n : calls[c].tasks[i].query = calls[c].queries[i]
        /\ Started(c) <= max_parallel
        /\ Len(calls[c].returned) <= max_parallel

C3_Witness ==
    \E c \in CallIds :
        /\ calls[c].pc = "returned"
        /\ Len(calls[c].queries) > max_parallel
        /\ Len(calls[c].returned) = max_parallel
        /\ Started(c) = max_parallel

\* what the tasks that did not end in an exception returned, in task order
RECURSIVE NonRaised(_)
NonRaised(tasks) ==
    IF tasks = << >> THEN << >>
    ELSE (IF Head(tasks).state = "raised" THEN << >>
          ELSE <<Head(tasks).result>>) \o NonRaised(Tail(tasks))

NumRaised(tasks) ==
    Cardinality({i \in 1..Len(tasks) : tasks[i].state = "raised"})

C5_TimeoutFallsThrough ==
    \A ci \in Live :
        LET t == TaskOf(ci) IN
        /\ t.state # "raised"
        /\ \A k \in 1..Len(t.attempts) :
              t.attempts[k].out = "timeout"
                => /\ k < Len(Sources)
                   /\ Len(t.attempts) > k
                   /\ t.attempts[k + 1].src = Sources[k + 1]

C5_Witness ==
    \E ci \in Live :
        LET t == TaskOf(ci) IN
        /\ t.pc = "done"
        /\ t.attempts[1].out = "timeout" /\ t.attempts[2].out = "timeout"
        /\ t.result = SuccessRecord(t.query, "knowledge_base")

C7_EveryCallReturns ==
    /\ \A c \in CallIds :
          (calls[c].pc = "gathering") ~> (calls[c].pc = "returned")
    /\ [](\A ci \in Live :
            TaskOf(ci).pc # "done" => ENABLED TaskStep(ci[1], ci[2]))

C7_Witness ==
    \E c \in CallIds :
        /\ calls[c].pc = "returned"
        /\ Len(calls[c].tasks) = max_parallel
        /\ \E d \in CallIds : d # c /\ calls[d].pc = "gathering"

RECURSIVE SumOver(_, _)
SumOver(f, S) ==
    IF S = {} THEN 0
    ELSE LET c == CHOOSE x \in S : TRUE IN f[c] + SumOver(f, S \ {c})

\* C8: at every moment queries_executed is the number of tasks that have
\* started and errors the number of exceptions the returned batches met;
\* once every call has returned, queries_executed is the number of
\* dispatched queries.
C8_NoLostCounterUpdate ==
    /\ queries_executed = SumOver([c \in CallIds |-> Started(c)], CallIds)
    /\ errors = SumOver([c \in CallIds |->
                            IF calls[c].pc = "returned"
                            THEN NumRaised(calls[c].tasks) ELSE 0], CallIds)
    /\ (\A c \in CallIds : calls[c].pc = "returned")
          => queries_executed = TotalDispatched

\* two calls overlap: a task of the second call has started while a task of
\* the first is suspended at a source and another has not started yet
C8_Witness ==
    /\ calls[1].pc = "gathering" /\ calls[2].pc = "gathering"
    /\ Len(calls[1].tasks) = 2
    /\ calls[1].tasks[1].pc = "duckduckgo"
    /\ calls[1].tasks[2].pc = "start"
    /\ calls[2].tasks[1].pc = "wikipedia"
    /\ queries_executed = 2

\* what get_stats reports is consistent
StatsConsistent ==
    /\ errors <= queries_executed
    /\ GetStats.success_rate.denominator > 0
    /\ 0 <= GetStats.success_rate.numerator
    /\ GetStats.success_rate.numerator <= GetStats.success_rate.denominator
    /\ queries_executed = 0 =>
           /\ GetStats.avg_latency = 0
           /\ GetStats.success_rate.numerator = 0

\* no step lowers a counter
StatsGrow ==
    /\ queries_executed' >= queries_executed
    /\ errors' >= errors
    /\ total_latency' >= total_latency

\* C33: in every reachable state of a NetworkInterrogator errors <=
\* queries_executed, so the success_rate of get_stats lies in [0,1]; with
\* no query executed get_stats reports avg_latency = 0.0 and success_rate =
\* 0.0; queries_executed, errors and total_latency never decrease.
C33_StatsConsistentAndGrowing == []StatsConsistent /\ [][StatsGrow]_vars

\* a search_parallel of no query has returned and has measured a latency:
\* total_latency is positive, no query was executed, and get_stats reports
\* the averages as 0
C33_Witness ==
    /\ queries_executed = 0
    /\ total_latency > 0
    /\ \E c \in CallIds : calls[c].pc = "returned"
    /\ GetStats.avg_latency = 0
    /\ GetStats.success_rate = [numerator |-> 0, denominator |-> 1]

\* three queries executed in a total latency of 1: avg_latency 0.333
C33_Averaged ==
    /\ queries_executed = 3
    /\ total_latency = 1
    /\ GetStats.avg_latency = 333
    /\ GetStats.success_rate = [numerator |-> 3, denominator |-> 3]

----------------------------------------------------------------------------
(* Properties of HypothesisEvaluator.                                      *)

\* C9: every score returned by the evaluator lies in [0,1].
C9_ScoreInUnitInterval ==
    \A k \in 1..Len(evaluation.results) :
        /\ evaluation.results[k].score >= 0
        /\ evaluation.results[k].score <= ScoreOne

\* one call scored a hypothesis whose raw score is below 0 and one whose
\* raw score is above 1
C9_Witness ==
    /\ \E k \in 1..Len(evaluation.results) :
          RawScore(evaluation.hypotheses[k], cognitive) < 0
    /\ \E k \in 1..Len(evaluation.results) :
          RawScore(evaluation.hypotheses[k], cognitive) > ScoreOne

\* C10: a returned call holds one result per hypothesis, result i carrying
\* hypothesis i; a call with an empty list returned an empty list and left
\* hypotheses_evaluated and total_evaluation_time as they were.
C10_OneScorePerHypothesisInOrder ==
    evaluation.pc = "returned" =>
        /\ Len(evaluation.results) = Len(evaluation.hypotheses)
        /\ \A k \in 1..Len(evaluation.hypotheses) :
              evaluation.results[k].hypothesis = evaluation.hypotheses[k]
        /\ evaluation.hypotheses = << >> =>
              /\ evaluation.results = << >>
              /\ hypotheses_evaluated = evaluation.before.evaluated
              /\ total_evaluation_time = evaluation.before.time

C10_Witness ==
    /\ evaluation.pc = "returned"
    /\ Len(evaluation.hypotheses) = 2
    /\ evaluation.hypotheses[1] # evaluation.hypotheses[2]
    /\ evaluation.results[1].score # evaluation.results[2].score

----------------------------------------------------------------------------
(* Properties of the text pipeline.                                        *)

\* C11: deep_clean is idempotent: cleaning the output of deep_clean again
\* gives that output back, for every input text.
C11_CleanIdempotent ==
    \A k \in 2..Len(cleaning.cleaned) :
        cleaning.cleaned[k] = cleaning.cleaned[k - 1]

\* C12: for a non-empty sentence list score_sentences returns one Sentence
\* per input sentence, in non-increasing order of composite score, and
\* sentences of equal composite score in increasing original index.
C12_RankedByScoreThenIndex ==
    (ranking.pc # "idle" /\ ranking.sentences # << >>) =>
        LET r == ranking.ranked IN
        /\ Len(r) = Len(ranking.sentences)
        /\ \A i, j \in 1..Len(r) :
              i < j => /\ r[i].score >= r[j].score
                       /\ (r[i].score = r[j].score
                              => r[i].index < r[j].index)

\* a ranking of three sentences, two of them of equal score
C12_Witness ==
    /\ ranking.pc = "ranked"
    /\ Len(ranking.ranked) = MaxSentences
    /\ \E i, j \in 1..Len(ranking.ranked) :
          i < j /\ ranking.ranked[i].score = ranking.ranked[j].score

\* C32: the list score_sentences returns is a permutation of the input
\* sentences: every position of the input appears exactly once as the
\* index of a Sentence, and the text of a Sentence is the input sentence at
\* its index; the sort does not renumber.
C32_RankedIsPermutation ==
    ranking.pc # "idle" =>
        /\ Len(ranking.ranked) = Len(ranking.sentences)
        /\ \A k \in 0..Len(ranking.sentences) - 1 :
               Cardinality({i \in 1..Len(ranking.ranked) :
                               ranking.ranked[i].index = k}) = 1
        /\ \A i \in 1..Len(ranking.ranked) :
               /\ ranking.ranked[i].index \in 0..Len(ranking.sentences) - 1
               /\ ranking.ranked[i].text
                      = ranking.sentences[ranking.ranked[i].index + 1]

\* three sentences, the first one twice in the input, ranked in another
\* order than that of the input
C32_Witness ==
    /\ ranking.pc = "ranked"
    /\ Len(ranking.sentences) = MaxSentences
    /\ ranking.sentences[1] = ranking.sentences[3]
    /\ ranking.sentences[1] # ranking.sentences[2]
    /\ ranking.ranked[1].index = 1

\* C13: the composite score of every Sentence score_sentences returns lies
\* in [0,1].
C13_CompositeInUnitInterval ==
    \A i \in 1..Len(ranking.ranked) :
        /\ 0 <= ranking.ranked[i].score
        /\ ranking.ranked[i].score <= RankOne

\* the share of the tokens of fact f that are also tokens of fact g is at
\* most 60%
SharesAtMostSixtyPercent(f, g) ==
    Cardinality(WordSet(f) \cap WordSet(g)) * 100
        <= 60 * Cardinality(WordSet(f))

\* C14: of any two facts extract_key_facts returns, neither has more than
\* 60% of its lower-cased whitespace tokens in the other.
C14_FactsOverlapAtMostSixtyPercent ==
    ranking.pc = "extracted" =>
        \A i, j \in 1..Len(ranking.facts) :
            i # j => SharesAtMostSixtyPercent(ranking.facts[i],
                                              ranking.facts[j])

\* the calls of synthesize that the state remembers
RecordedCalls == synthesis.first \o synthesis.last

\* the label the thresholds 0.8, 0.55 and 0.3 give; c in hundredths
LabelFromThresholds(c) ==
    CASE c >= 80 -> "High"
      [] c < 80 /\ c >= 55 -> "Moderate"
      [] c < 55 /\ c >= 30 -> "Low"
      [] c < 30 -> "Very Low"

\* C15: in every answer synthesize returns, on the normal path and on the
\* no-evidence path, confidence_label is the label the thresholds give for
\* the confidence field of that answer.
C15_LabelFollowsConfidence ==
    \A i \in 1..Len(RecordedCalls) :
        RecordedCalls[i].answer.confidence_label
            = LabelFromThresholds(RecordedCalls[i].answer.confidence)

\* an answer of the normal path whose confidence is one of the thresholds
C15_Witness ==
    /\ synthesis.calls = 1
    /\ synthesis.last[1].answer.key_facts # << >>
    /\ synthesis.last[1].answer.confidence = 55
    /\ synthesis.last[1].answer.confidence_label = "Moderate"

\* the raw texts yield no usable sentence
NoUsableSentence(raw_texts) ==
    SegmentSentences(Join(CleanedTexts(raw_texts), <<" ">>)) = << >>

\* the summary states that information could not be found
SaysNotFound(summary) ==
    StartsWith(summary, 1,
               <<"C", "o", "u", "l", "d", " ", "n", "o", "t", " ", "f", "i",
                 "n", "d">>)

\* C16: when the raw texts yield no usable sentence, synthesize returns the
\* sentinel answer: label Very Low, no key facts, no entities and a summary
\* that states that information could not be found.
C16_NoEvidenceGivesSentinel ==
    \A i \in 1..Len(RecordedCalls) :
        NoUsableSentence(RecordedCalls[i].raw_texts) =>
            /\ RecordedCalls[i].answer.confidence_label = "Very Low"
            /\ RecordedCalls[i].answer.key_facts = << >>
            /\ RecordedCalls[i].answer.entities = << >>
            /\ SaysNotFound(RecordedCalls[i].answer.summary)

\* a call with a text that is cleaned to something but holds no sentence,
\* made with a confidence whose label is not Very Low
C16_Witness ==
    /\ synthesis.calls = 1
    /\ synthesis.last[1].raw_texts = <<ShortText>>
    /\ synthesis.last[1].confidence >= 30
    /\ NoUsableSentence(synthesis.last[1].raw_texts)
    /\ SaysNotFound(synthesis.last[1].answer.summary)

RenderedLines == SplitLines(rendering.output)

\* the line is a confidence line
StartsConfidence(line) ==
    StartsWith(line, 1, <<"C", "o", "n", "f", "i", "d", "e", "n", "c", "e",
                          ":", " ">>)

\* C18: for every answer and either value of verbose the text render_answer
\* returns ends with the line 'Confidence: <label> (<value>)' and holds no
\* other such line, also when summary, key facts, entities and sources are
\* empty; the line 'Key Facts:' occurs only when key_facts is not empty.
C18_EndsWithOneConfidenceLine ==
    rendering.pc = "rendered" =>
        /\ RenderedLines[Len(RenderedLines)]
               = <<"C", "o", "n", "f", "i", "d", "e", "n", "c", "e", ":", " ">>
                 \o WordText[rendering.answer.confidence_label]
                 \o <<" ", "(">>
                 \o TwoDecimals(rendering.answer.confidence) \o <<")">>
        /\ Cardinality({i \in 1..Len(RenderedLines) :
                           StartsConfidence(RenderedLines[i])}) = 1
        /\ (\E i \in 1..Len(RenderedLines) :
               RenderedLines[i]
                   = <<"K", "e", "y", " ", "F", "a", "c", "t", "s", ":">>)
               => rendering.answer.key_facts # << >>

\* an answer with nothing to show, rendered verbosely
C18_Witness ==
    /\ rendering.pc = "rendered"
    /\ rendering.verbose
    /\ rendering.answer.summary = << >>
    /\ rendering.answer.key_facts = << >>
    /\ rendering.answer.entities = << >>
    /\ rendering.answer.sources = << >>
    /\ Len(RenderedLines) = 1

----------------------------------------------------------------------------
(* Properties of LLMSynthesizer.                                           *)

\* the provider's answer is not what its API delivers: a plain body that is
\* not one JSON object with the text member, a streamed body with a line
\* that is not JSON
Malformed(config, reply) ==
    /\ reply.status = 200
    /\ IF config.stream
       THEN \E k \in 1..Len(reply.body) : ~reply.body[k].json
       ELSE \/ Len(reply.body) # 1
            \/ ~reply.body[1].json
            \/ reply.body[1].text = << >>

\* a failure of the selected provider: transport error, HTTP error status,
\* missing API key, malformed response
ProviderFailed(config, reply) ==
    /\ config.provider # "none"
    /\ \/ reply.status = 0
       \/ reply.status >= 400
       \/ config.provider # "ollama" /\ ~config.api_key
       \/ Malformed(config, reply)

\* the failures that reach the caller of the provider's method as an
\* exception
ProviderRaised(config, reply) ==
    /\ config.provider # "none"
    /\ \/ reply.status = 0
       \/ reply.status >= 400
       \/ config.provider # "ollama" /\ ~config.api_key
       \/ /\ ~config.stream
          /\ Malformed(config, reply)
          /\ ~(config.provider = "ollama" /\ Len(reply.body) = 1
               /\ reply.body[1].json)

FellBack(outcome, raw_facts) ==
    /\ ~outcome.raised
    /\ outcome.value[1].natural_answer = raw_facts
    /\ outcome.value[1].success = FALSE
    /\ outcome.value[1].fallback = TRUE

\* C19: with fallback_to_raw set, any failure of the selected provider
\* (transport error, HTTP error status, missing API key, malformed
\* response) makes synthesize return, without raising, natural_answer =
\* raw_facts with success false and fallback true; with fallback_to_raw
\* unset the failure is raised.
C19_FailureFallsBackOrRaises ==
    (fluency.pc = "done" /\ ProviderFailed(fluency.config, fluency.reply))
        => IF fluency.config.fallback_to_raw
           THEN FellBack(fluency.outcome, fluency.raw_facts)
           ELSE fluency.outcome.raised

\* What the code does: the same, for the failures that are raised inside
\* the provider's method.
C19_RaisedFailureFallsBackOrRaises ==
    (fluency.pc = "done" /\ ProviderRaised(fluency.config, fluency.reply))
        => IF fluency.config.fallback_to_raw
           THEN FellBack(fluency.outcome, fluency.raw_facts)
           ELSE fluency.outcome.raised

\* a streamed body of lines that are not JSON, status 200, is answered with
\* an empty natural_answer and success true
C19_StreamOfNoise ==
    /\ fluency.pc = "done"
    /\ fluency.config.provider = "openai"
    /\ fluency.config.stream
    /\ fluency.config.api_key
    /\ fluency.config.fallback_to_raw
    /\ fluency.reply = [status |-> 200, body |-> <<NotJson>>]
    /\ fluency.raw_facts # << >>
    /\ fluency.outcome =
           Return(SynthesisResult(<< >>, "openai", TRUE, FALSE))

\* an HTTP error status with fallback_to_raw set: the fallback result
C19_Witness ==
    /\ fluency.pc = "done"
    /\ fluency.config.provider = "groq"
    /\ fluency.config.api_key
    /\ fluency.config.fallback_to_raw
    /\ fluency.reply.status = 500
    /\ fluency.raw_facts # << >>
    /\ fluency.outcome =
           Return(SynthesisResult(fluency.raw_facts, "fallback", FALSE,
                                  TRUE))

----------------------------------------------------------------------------
(* Properties of QueryCache.                                               *)

AllReturned == \A t \in Threads : threads[t].pc = "idle"

\* C20: QueryCache is thread-safe: however the get, set, invalidate and
\* clear calls of several threads interleave, no call fails because of
\* another thread's update, and once all calls have returned the cache
\* holds at most max_size entries.
C20_ThreadSafe ==
    /\ \A t \in Threads : ~threads[t].raised
    /\ AllReturned => Len(cache.store) <= cache.max_size

\* What the code does keep: the size bound once all calls have returned.
C20_SizeBoundWhenQuiet ==
    AllReturned => Len(cache.store) <= cache.max_size

\* a get has read an entry, another thread has removed it, and the
\* move_to_end of the get has raised KeyError
C20_GetFailed ==
    \E t \in Threads :
        /\ threads[t].raised
        /\ threads[t].pc = "idle"
        /\ threads[t].entry # << >>
        /\ ~Contains(cache.store, threads[t].key)
        /\ cache.ttl = 0

----------------------------------------------------------------------------
(* Properties of a QueryCache used by one caller.                          *)

\* C21: after every completed operation of a QueryCache, in any sequence
\* of set, get, invalidate and clear, the number of stored entries is at
\* most max_size.
C21_SizeAtMostMaxSize == Size(solo.cache) <= solo.cache.max_size

\* a set of a new key into a full cache of two entries has returned, and
\* the cache holds two entries
C21_Witness ==
    /\ solo.last.op = "set"
    /\ solo.cache.max_size = 2
    /\ Size(solo.last.before) = 2
    /\ ~Contains(solo.last.before.store, MakeKey(solo.last.query))
    /\ Size(solo.cache) = 2

\* the key of the last call, the keys the call found and the keys it left
LastKey == MakeKey(solo.last.query)
KeysBefore == KeysOf(solo.last.before.store)
KeysAfter == KeysOf(solo.cache.store)

\* the last call was a set of a key that was not stored, into a cache that
\* was full
SetOverMaxSize ==
    /\ solo.last.op = "set"
    /\ LastKey \notin KeysBefore
    /\ Size(solo.last.before) + 1 > solo.cache.max_size

\* key is, of the keys, one whose last use is the oldest
LeastRecentlyUsed(key, keys) ==
    \A other \in keys : solo.used[key] <= solo.used[other]

\* the last call was a get of an entry that had expired
GotExpired ==
    /\ solo.last.op = "get"
    /\ LastKey \in KeysBefore
    /\ solo.last.value = << >>

\* C22: when a set of a key that is not in the cache takes the cache over
\* max_size, exactly one entry is evicted and it is the least recently
\* used one, a use being a set of the key or a get that returned its
\* value; in no other situation does an operation evict an entry (get
\* removes only the expired entry it was asked for, invalidate only the
\* entry it was asked for, clear all of them).
C22_EvictsLeastRecentlyUsed ==
    CASE SetOverMaxSize ->
             \E key \in KeysBefore \cup {LastKey} :
                 /\ KeysAfter = (KeysBefore \cup {LastKey}) \ {key}
                 /\ LeastRecentlyUsed(key, KeysBefore \cup {LastKey})
      [] solo.last.op = "set" /\ ~SetOverMaxSize ->
             KeysAfter = KeysBefore \cup {LastKey}
      [] solo.last.op = "get" ->
             KeysAfter = IF GotExpired THEN KeysBefore \ {LastKey}
                         ELSE KeysBefore
      [] solo.last.op = "invalidate" -> KeysAfter = KeysBefore \ {LastKey}
      [] OTHER -> KeysAfter = {}

\* two entries, the older one read after the newer one was set; a set of a
\* third key has evicted the newer one
C22_Witness ==
    /\ SetOverMaxSize
    /\ Size(solo.last.before) = 2
    /\ solo.last.before.store[1].timestamp
           > solo.last.before.store[2].timestamp
    /\ KeysAfter = {solo.last.before.store[2].key, LastKey}

\* a query lower-cased, its runs of whitespace collapsed, without leading
\* and trailing whitespace
Normalised(query) == Join(Split(LowerText(query)), <<" ">>)

\* the call before the last was a set, the last call names a query that is
\* the same after normalisation, and the entry was neither evicted
\* (max_size is not 0) nor expired when the last call was made
SetThenSameQuery ==
    /\ solo.prev.op = "set"
    /\ Normalised(solo.prev.query) = Normalised(solo.last.query)
    /\ solo.cache.max_size >= 1
    /\ ~(solo.cache.ttl > 0 /\ solo.last.at - solo.prev.at > solo.cache.ttl)

\* C23: two queries that are equal after lower-casing and collapsing runs
\* of whitespace address the same entry: after set(q1, v), get(q2) returns
\* v, and invalidate(q2) removes the entry (it returns True, the store is
\* one entry smaller and a get of q1 finds nothing), as long as the entry
\* was neither evicted nor expired.
C23_NormalisedQueriesShareEntry ==
    SetThenSameQuery =>
        CASE solo.last.op = "get" -> solo.last.value = solo.prev.value
          [] solo.last.op = "invalidate" ->
                 /\ solo.last.value = <<TRUE>>
                 /\ Size(solo.cache) = Size(solo.last.before) - 1
                 /\ CacheGet(solo.cache, solo.last.at,
                             solo.prev.query).value = << >>
          [] OTHER -> TRUE

\* set("a", 2), a tick of the clock, and get(" A ") has returned 2
C23_Witness ==
    /\ SetThenSameQuery
    /\ solo.prev.query = <<"a">>
    /\ solo.last.op = "get"
    /\ solo.last.query = <<" ", "A", " ">>
    /\ solo.last.at > solo.prev.at
    /\ solo.last.value = <<2>>

\* set(" A ", v) and invalidate("a") has removed the entry, another stays
C23_Invalidated ==
    /\ SetThenSameQuery
    /\ solo.prev.query = <<" ", "A", " ">>
    /\ solo.last.op = "invalidate"
    /\ solo.last.query = <<"a">>
    /\ Size(solo.cache) = 1

\* the last call was a get of a key that was stored; its entry, and the
\* time since the last set of the key
GotStored == solo.last.op = "get" /\ LastKey \in KeysBefore
EntryBefore == StoreGet(solo.last.before.store, LastKey)[1]
Age == solo.last.at - solo.setat[LastKey]

\* C24: with ttl > 0, a get of an entry whose age since its last set is
\* greater than ttl returns None, removes the entry and counts as a miss,
\* and a get at an age of at most ttl returns the stored value; the age
\* runs from the last set, so a successful get does not extend the
\* lifetime; with ttl = 0 an entry never expires.
C24_ExpiresAfterTtl ==
    GotStored =>
        IF solo.cache.ttl > 0 /\ Age > solo.cache.ttl
        THEN /\ solo.last.value = << >>
             /\ LastKey \notin KeysAfter
             /\ solo.cache.misses = solo.last.before.misses + 1
             /\ solo.cache.hits = solo.last.before.hits
        ELSE /\ solo.last.value = <<EntryBefore.value>>
             /\ LastKey \in KeysAfter
             /\ solo.cache.hits = solo.last.before.hits + 1
             /\ solo.cache.misses = solo.last.before.misses

\* ttl is 1: a get at age 1 has returned the value, and a get at age 2
\* has returned None and removed the entry
C24_Witness ==
    /\ GotStored
    /\ solo.cache.ttl = 1
    /\ solo.prev.op = "get"
    /\ solo.prev.value # << >>
    /\ MakeKey(solo.prev.query) = LastKey
    /\ solo.prev.at = solo.setat[LastKey] + 1
    /\ Age = 2
    /\ solo.last.value = << >>
    /\ LastKey \notin KeysAfter

\* ttl is 0: a get at age 2 has returned the value
C24_NeverExpires ==
    /\ GotStored
    /\ solo.cache.ttl = 0
    /\ Age = 2
    /\ solo.last.value # << >>

\* a store without the item of a key, by the definition of a subsequence
Without(store, key) == SelectSeq(store, LAMBDA item : item.key # key)

\* C25: invalidate(q) returns True exactly when an entry for q is stored;
\* afterwards get(q) returns None and a second invalidate(q) returns
\* False; every other entry, the order of the other entries and the hit
\* and miss counters are as they were.  The get and the second invalidate
\* are applied to the cache the call left, and the second invalidate is
\* also looked at where the caller made it.
C25_InvalidateRemovesOnlyItsEntry ==
    solo.last.op = "invalidate" =>
        /\ solo.last.value = <<LastKey \in KeysBefore>>
        /\ CacheGet(solo.cache, solo.now, solo.last.query).value = << >>
        /\ CacheInvalidate(solo.cache, solo.last.query).value = <<FALSE>>
        /\ solo.cache.store = Without(solo.last.before.store, LastKey)
        /\ solo.cache.hits = solo.last.before.hits
        /\ solo.cache.misses = solo.last.before.misses
        /\ (solo.prev.op = "invalidate" /\ solo.prev.query = solo.last.query)
               => solo.last.value = <<FALSE>>

\* the newer of two entries has been invalidated after a hit; the older
\* one and the counters stay
C25_Witness ==
    /\ solo.last.op = "invalidate"
    /\ solo.last.value = <<TRUE>>
    /\ Size(solo.last.before) = 2
    /\ solo.last.before.store[2].key = LastKey
    /\ Size(solo.cache) = 1
    /\ solo.cache.hits = 1

\* invalidate(q) has returned True and the next invalidate(q) False
C25_InvalidatedTwice ==
    /\ solo.last.op = "invalidate"
    /\ solo.prev.op = "invalidate"
    /\ solo.prev.query = solo.last.query
    /\ solo.prev.value = <<TRUE>>
    /\ solo.last.value = <<FALSE>>

\* C26: hits + misses is the number of get calls made since the
\* construction or since the last clear, a get that finds an expired
\* entry counting as a miss; hit_rate is hits / (hits + misses), and 0.0
\* when no get has been made; clear empties the store and resets both
\* counters to 0.
C26_CountersCountGets ==
    /\ solo.cache.hits + solo.cache.misses = solo.gets
    /\ GotExpired => solo.cache.misses = solo.last.before.misses + 1
    /\ IF solo.gets = 0
       THEN HitRate(solo.cache).numerator = 0
       ELSE HitRate(solo.cache).numerator * solo.gets
                = solo.cache.hits * HitRate(solo.cache).denominator
    /\ solo.last.op = "clear" =>
           /\ solo.cache.store = << >>
           /\ solo.cache.hits = 0
           /\ solo.cache.misses = 0

\* a hit and then a get that found the entry expired: one hit, one miss,
\* two gets
C26_Witness ==
    /\ GotExpired
    /\ solo.cache.hits = 1
    /\ solo.cache.misses = 1
    /\ solo.gets = 2
    /\ HitRate(solo.cache) = [numerator |-> 1, denominator |-> 2]

\* a clear of a cache that held an entry and had counted a hit and a
\* miss
C26_Cleared ==
    /\ solo.last.op = "clear"
    /\ Size(solo.last.before) > 0
    /\ solo.last.before.hits = 1
    /\ solo.last.before.misses = 1
    /\ solo.gets = 0
    /\ HitRate(solo.cache) = [numerator |-> 0, denominator |-> 1]

----------------------------------------------------------------------------
(* Properties of ConversationBuffer.                                       *)

\* the session of the last call, the sessions the call found and the
\* sessions it left
SessionsBefore == DOMAIN buffer.last.before.sessions
SessionsAfter == DOMAIN buffer.buf.sessions
AddedTurn == buffer.last.op \in {"add_user_turn", "add_assistant_turn"}

\* the last call added a turn for a session that did not exist, to a
\* buffer that held max_sessions sessions
AddedAtMaxSessions ==
    /\ AddedTurn
    /\ buffer.last.session_id \notin SessionsBefore
    /\ ActiveSessions(buffer.last.before) >= buffer.buf.max_sessions

LeastRecentlyAccessed(id) ==
    \A other \in SessionsBefore :
        buffer.last.accessed[id] <= buffer.last.accessed[other]

\* C28: when a turn is added for a session id that does not exist and the
\* buffer is at max_sessions, exactly one session is evicted, the one
\* least recently accessed through get_or_create, add_user_turn or
\* add_assistant_turn, and all other sessions keep their turns; enrich_query
\* and session_info are no accesses: they leave the access order as it is,
\* and the eviction goes by the accesses of the other three calls alone.
C28_EvictsLeastRecentlyAccessed ==
    /\ AddedAtMaxSessions =>
           \E id \in SessionsBefore :
               /\ SessionsAfter
                      = (SessionsBefore \ {id}) \cup {buffer.last.session_id}
               /\ LeastRecentlyAccessed(id)
               /\ \A other \in SessionsBefore \ {id} :
                      buffer.buf.sessions[other]
                          = buffer.last.before.sessions[other]
    /\ buffer.last.op \in {"enrich_query", "session_info"} =>
           buffer.buf.access_order = buffer.last.before.access_order

\* the first of two sessions was accessed again after the second was
\* created; a turn for a third session id has evicted the second
C28_Witness ==
    /\ AddedAtMaxSessions
    /\ buffer.buf.max_sessions = 2
    /\ buffer.calls = 4
    /\ \E kept \in SessionsBefore \cap SessionsAfter :
           /\ Len(buffer.buf.sessions[kept]) = 2
           /\ buffer.last.accessed[kept] = 3
    /\ \E evicted \in SessionsBefore \ SessionsAfter :
           buffer.last.accessed[evicted] = 2

\* C29: for every max_turns_per_session >= 1 and after any sequence of
\* add_user_turn and add_assistant_turn calls, every session holds at most
\* max_turns_per_session turns.
C29_TurnsAtMostMaxTurns ==
    \A id \in SessionsAfter :
        Len(buffer.buf.sessions[id]) <= buffer.buf.max_turns_per_session

\* What the code does keep: the bound for max_turns_per_session >= 2,
\* where the half that _trim_session keeps is not empty.
C29_TurnsAtMostMaxTurnsFromTwo ==
    buffer.buf.max_turns_per_session >= 2 => C29_TurnsAtMostMaxTurns

\* max_turns_per_session is 1: the second turn of a session has been
\* added, _trim_session has kept turns[-0:], and the session holds both
C29_Untrimmed ==
    /\ AddedTurn
    /\ buffer.buf.max_turns_per_session = 1
    /\ buffer.last.session_id \in SessionsBefore
    /\ Len(buffer.last.before.sessions[buffer.last.session_id]) = 1
    /\ Len(buffer.buf.sessions[buffer.last.session_id]) = 2

\* max_turns_per_session is 3: the fourth turn has been added and the
\* session is trimmed to its last turn
C29_Trimmed ==
    /\ AddedTurn
    /\ buffer.buf.max_turns_per_session = 3
    /\ buffer.last.session_id \in SessionsBefore
    /\ Len(buffer.last.before.sessions[buffer.last.session_id]) = 3
    /\ Len(buffer.buf.sessions[buffer.last.session_id]) = 1

\* the last call was an enrich_query; the turns its session had
EnrichedQuery == buffer.last.op = "enrich_query"
TurnsBefore ==
    IF buffer.last.session_id \in SessionsBefore
    THEN buffer.last.before.sessions[buffer.last.session_id]
    ELSE << >>

\* text ends with 'Current question: <query>', and what stands before it
\* is a context: the header line, lines of turns that end with the line
\* of the session's latest turn, and a newline
ContextThenQuestion(text, query, turns) ==
    \E n \in 1..Len(text) :
        /\ SubSeq(text, n + 1, Len(text)) = CurrentQuestion \o query
        /\ SubSeq(text, 1, Len(PreviousConversation) + 1)
               = PreviousConversation \o <<"\n">>
        /\ SubSeq(text, n - Len(TurnLine(turns[Len(turns)])) - 1, n)
               = <<"\n">> \o TurnLine(turns[Len(turns)]) \o <<"\n">>

\* C30: enrich_query for a session id that does not exist or has no turns
\* returns the current query unchanged; for a session with turns it
\* returns the formatted context followed by 'Current question: <query>';
\* in every case it changes nothing in the buffer: it creates no session
\* and does not alter the access order.
C30_EnrichQueryOnlyReads ==
    EnrichedQuery =>
        /\ buffer.buf = buffer.last.before
        /\ IF TurnsBefore = << >>
           THEN buffer.last.value = buffer.last.query
           ELSE ContextThenQuestion(buffer.last.value, buffer.last.query,
                                    TurnsBefore)

\* enrich_query of a session with two turns and context_window 1 has
\* returned the header, the line of the second turn and the question
C30_Witness ==
    /\ EnrichedQuery
    /\ buffer.buf.context_window = 1
    /\ Len(TurnsBefore) = 2
    /\ TurnsBefore[2].role = "assistant"
    /\ buffer.last.value
           = PreviousConversation \o <<"\n">> \o AssistantLabel
             \o <<":", " ">> \o TurnsBefore[2].content \o <<"\n">>
             \o CurrentQuestion \o buffer.last.query

\* enrich_query of a session id that does not exist, in a buffer that
\* holds another session, has returned the query
C30_NoSession ==
    /\ EnrichedQuery
    /\ buffer.last.session_id \notin SessionsBefore
    /\ SessionsBefore # {}
    /\ buffer.last.value = buffer.last.query
    /\ SessionsAfter = SessionsBefore

\* enrich_query of a session that get_or_create made and that has no turn
C30_NoTurns ==
    /\ EnrichedQuery
    /\ buffer.last.session_id \in SessionsBefore
    /\ TurnsBefore = << >>
    /\ buffer.last.value = buffer.last.query

\* the ids of an access order
OrderIds(order) == {order[k] : k \in 1..Len(order)}

\* C31: delete_session(id) returns True exactly when the session exists;
\* afterwards session_info(id) is None, a second delete_session(id)
\* returns False, the id no longer takes part in eviction (it is not in
\* the access order), and all other sessions, with their turns and their
\* places in the access order, are unchanged.
C31_DeleteRemovesOnlyItsSession ==
    buffer.last.op = "delete_session" =>
        /\ buffer.last.value
               = <<buffer.last.session_id \in SessionsBefore>>
        /\ SessionInfo(buffer.buf, buffer.last.session_id).value = << >>
        /\ DeleteSession(buffer.buf, buffer.last.session_id).value
               = <<FALSE>>
        /\ buffer.last.session_id \notin OrderIds(buffer.buf.access_order)
        /\ buffer.buf.access_order
               = SelectSeq(buffer.last.before.access_order,
                           LAMBDA id : id # buffer.last.session_id)
        /\ SessionsAfter = SessionsBefore \ {buffer.last.session_id}
        /\ \A other \in SessionsAfter :
               buffer.buf.sessions[other]
                   = buffer.last.before.sessions[other]

\* the older of two sessions has been deleted; the newer one, with its
\* turn, is the whole of the buffer and of the access order
C31_Witness ==
    /\ buffer.last.op = "delete_session"
    /\ buffer.last.value = <<TRUE>>
    /\ Len(buffer.last.before.access_order) = 2
    /\ buffer.last.before.access_order[1] = buffer.last.session_id
    /\ Len(buffer.buf.access_order) = 1
    /\ \E other \in SessionsAfter : Len(buffer.buf.sessions[other]) = 1

----------------------------------------------------------------------------
(* Properties of the local-knowledge fallback on query texts.              *)

\* the cleaned, lower-cased query of a record of the fallback
CleanedLower(record) == LowerText(CleanQuery(record.query))

\* the keys of the table that are substrings of the cleaned, lower-cased
\* query of a record
KeysInQuery(record) ==
    {k \in 1..Len(KnowledgeBase) :
        IsSubstring(KnowledgeBase[k].key, CleanedLower(record))}

\* the keys of the table of which the cleaned, lower-cased query of a
\* record is a substring
KeysAroundQuery(record) ==
    {k \in 1..Len(KnowledgeBase) :
        IsSubstring(CleanedLower(record), KnowledgeBase[k].key)}

\* the record carries the content of the first of the keys, in table order
ContentOfFirst(record, keys) ==
    /\ record.content = TopicContent(KnowledgeBase[Least(keys)].value)
    /\ record.metadata.matched_key = KnowledgeBase[Least(keys)].key

\* the record carries the notice about its cleaned query
NoticeAbout(record) ==
    /\ record.content = NoticeContent(CleanQuery(record.query))
    /\ record.metadata.matched_key = CleanQuery(record.query)

\* two calls with the same query return the same record
SameQuerySameRecord ==
    \A i, j \in 1..Len(simulated) :
        simulated[i].query = simulated[j].query
            => simulated[i] = simulated[j]

\* C34 as stated: the fallback returns the notice exactly when no key of
\* the table is a substring of the cleaned, lower-cased query, otherwise the
\* content of the first key in table order that is a substring of it, and
\* the same query always gives the same record.
C34_NoticeIffNoKeyInQuery ==
    /\ \A i \in 1..Len(simulated) :
        IF KeysInQuery(simulated[i]) = {}
        THEN NoticeAbout(simulated[i])
        ELSE ContentOfFirst(simulated[i], KeysInQuery(simulated[i]))
    /\ SameQuerySameRecord

\* C34 amended: the fallback returns the notice exactly when no key of the
\* table is a substring of the cleaned, lower-cased query and that query is
\* not a substring of any key; otherwise it returns the content of the
\* first key in table order that contains the query or is contained in it;
\* the same query always gives the same record.
C34_NoticeIffNoKeyEitherWay ==
    /\ \A i \in 1..Len(simulated) :
        IF KeysInQuery(simulated[i]) \cup KeysAroundQuery(simulated[i]) = {}
        THEN NoticeAbout(simulated[i])
        ELSE ContentOfFirst(simulated[i],
                 KeysInQuery(simulated[i]) \cup KeysAroundQuery(simulated[i]))
    /\ SameQuerySameRecord

\* C34 witness: a first call whose cleaned query holds no key and is part
\* of a key returned the content of that key, and a second call whose
\* query holds two keys returned the content of the first of them
C34_Witness ==
    /\ Len(simulated) = 2
    /\ KeysInQuery(simulated[1]) = {}
    /\ CleanedLower(simulated[1]) # << >>
    /\ ~simulated[1].content.notice
    /\ Cardinality(KeysInQuery(simulated[2])) = 2
    /\ ContentOfFirst(simulated[2], KeysInQuery(simulated[2]))

\* C34: a call whose cleaned query matches no key either way returned the
\* notice about the cleaned query
C34_Noticed ==
    /\ Len(simulated) = 1
    /\ simulated[1].content.notice
    /\ simulated[1].metadata.matched_key # simulated[1].query

----------------------------------------------------------------------------
(* Properties of compose_answer.                                           *)

\* a sentence that leads the answer for the query type
Leads(s, query_type) ==
    \/ query_type = "biographical" /\ (s.is_biographical \/ s.is_definition)
    \/ query_type = "definition" /\ s.is_definition

\* the sentences at the chosen places of the scored list are in the order
\* of the answer: the leading ones first, document order inside each group
InAnswerOrder(scored, chosen, query_type) ==
    \A i, j \in 1..Len(chosen) :
        i < j =>
            \/ /\ Leads(scored[chosen[i]], query_type)
               /\ ~Leads(scored[chosen[j]], query_type)
            \/ /\ Leads(scored[chosen[i]], query_type)
                  = Leads(scored[chosen[j]], query_type)
               /\ scored[chosen[i]].index < scored[chosen[j]].index

\* the places of at least one and at most max_sentences sentences of the
\* scored list, in any order
Choices(scored, max_sentences) ==
    {chosen \in UNION {[1..n -> 1..Len(scored)] :
                           n \in 1..Min(max_sentences, Len(scored))} :
        \A i, j \in 1..Len(chosen) : chosen[i] = chosen[j] => i = j}

\* the summary is the chosen sentences joined
JoinedOf(scored, chosen, summary) ==
    summary = Join(Paragraphs([k \in 1..Len(chosen) |-> scored[chosen[k]]]),
                   <<" ">>)

\* C35: the answer of compose_answer is, when there is a sentence and
\* max_sentences is positive, at most max_sentences of the sentences
\* joined, the leading ones of a biographical or definition query first
\* and document order otherwise; else it is the no-information message
\* for the subject of the query.
C35_ComposedInDocumentOrder ==
    composed.pc = "done" =>
        IF composed.scored = << >> \/ composed.max_sentences <= 0
        THEN composed.summary
                 = NoClearInformation(QuerySubject(composed.query))
        ELSE \E chosen \in Choices(composed.scored, composed.max_sentences) :
                 /\ InAnswerOrder(composed.scored, chosen,
                                  composed.query_type)
                 /\ JoinedOf(composed.scored, chosen, composed.summary)

\* C35 witness: a biographical answer of three sentences whose score order
\* is not the document order and in which a later sentence leads
C35_Witness ==
    /\ composed.pc = "done"
    /\ composed.query_type = "biographical"
    /\ composed.max_sentences = 3
    /\ Len(composed.scored) = 3
    /\ composed.scored[1].index = 1
    /\ composed.scored[2].index = 2
    /\ composed.scored[3].index = 0
    /\ Leads(composed.scored[2], "biographical")
    /\ ~Leads(composed.scored[1], "biographical")
    /\ ~Leads(composed.scored[3], "biographical")
    /\ \E chosen \in Choices(composed.scored, 3) :
           /\ chosen = <<2, 3, 1>>
           /\ JoinedOf(composed.scored, chosen, composed.summary)

\* C35: a general answer of sentences scored against the document order
C35_GeneralReordered ==
    /\ composed.pc = "done"
    /\ composed.query_type = "general"
    /\ composed.max_sentences = 2
    /\ Len(composed.scored) = 3
    /\ composed.scored[1].index = 2
    /\ composed.scored[2].index = 0
    /\ composed.scored[1].is_definition
    /\ JoinedOf(composed.scored, <<2, 1>>, composed.summary)

\* C35: nothing to select, and the message names the subject of the query
C35_NoInformation ==
    /\ composed.pc = "done"
    /\ composed.scored # << >>
    /\ composed.max_sentences = 0
    /\ composed.query # << >>
    /\ composed.summary = NoClearInformation(QuerySubject(composed.query))

----------------------------------------------------------------------------
(* Properties of _detect_query_type.                                       *)

\* the types with trigger phrases, in the order of the tests
TypeOrder ==
    <<"biographical", "definition", "comparative", "procedural", "causal">>

TriggersOf ==
    <<BiographicalQueries, DefinitionQueries, ComparativeQueries,
      ProceduralQueries, CausalQueries>>

\* the places in TypeOrder of the types of which the query holds a trigger
TypesMatched(query) ==
    {k \in 1..Len(TypeOrder) : HasPhrase(TriggersOf[k], query)}

\* C36: the detected type is one of the six types; it is the first type in
\* the order biographical, definition, comparative, procedural, causal of
\* which the query holds a trigger phrase, and general only when the query
\* holds no trigger phrase.
C36_FirstMatchingType ==
    detected.pc = "done" =>
        /\ detected.query_type \in QueryTypes
        /\ detected.query_type =
               IF TypesMatched(detected.query) = {} THEN "general"
               ELSE TypeOrder[Least(TypesMatched(detected.query))]

\* C36 witness: a query with the triggers of three types, none of them
\* biographical, got the first of them
C36_Witness ==
    /\ detected.pc = "done"
    /\ Cardinality(TypesMatched(detected.query)) = 3
    /\ 1 \notin TypesMatched(detected.query)
    /\ detected.query_type
           = TypeOrder[Least(TypesMatched(detected.query))]

\* C36: a query of three words that hold triggers inside longer words is
\* general
C36_General ==
    /\ detected.pc = "done"
    /\ detected.query_type = "general"
    /\ Len(detected.query) > 10

----------------------------------------------------------------------------
(* Properties of Session.build_context.                                    *)

\* the last call of build_context on the Session
LastContext == session.last[1]

\* the last min(n, number of turns) turns, in chronological order
LastTurns(turns, n) ==
    SubSeq(turns, Len(turns) - Min(n, Len(turns)) + 1, Len(turns))

\* the context holds the given turns and no other: nothing when there is
\* none, else the header and a line for each of them in order
ContextHolds(context, turns) ==
    context = IF turns = << >> THEN << >> ELSE ContextOf(turns)

\* C37 as stated: for every max_turns >= 0, build_context(max_turns) holds
\* only the last min(max_turns, number of turns) turns of the session, in
\* chronological order, and is the empty string when there is no such turn.
C37_ContextOfLastTurns ==
    session.last # << >> =>
        ContextHolds(LastContext.context,
                     LastTurns(LastContext.turns, LastContext.max_turns))

\* C37 for max_turns >= 1: the context holds only the last
\* min(max_turns, number of turns) turns
C37_ContextOfLastTurnsFromOne ==
    session.last # << >> /\ LastContext.max_turns >= 1 =>
        ContextHolds(LastContext.context,
                     LastTurns(LastContext.turns, LastContext.max_turns))

\* C37: build_context(0) on a session of three turns returned the context
\* of all three
C37_WholeHistory ==
    /\ session.last # << >>
    /\ LastContext.max_turns = 0
    /\ Len(LastContext.turns) = MaxSessionTurns
    /\ LastContext.context = ContextOf(LastContext.turns)

\* C37: build_context(2) on a session of three turns returned the context
\* of the last two
C37_LastTwo ==
    /\ session.last # << >>
    /\ LastContext.max_turns = 2
    /\ Len(LastContext.turns) = MaxSessionTurns
    /\ LastContext.turns[2].role # LastContext.turns[3].role
    /\ LastContext.context = ContextOf(Tail(LastContext.turns))

----------------------------------------------------------------------------
(* Properties of the trimming of a session.                                *)

\* the turns a caller of the model can add
AddableTurns ==
    {Turn("user", content, << >>) : content \in Contents}
    \cup {Turn("assistant", content, confidence) :
             content \in Contents, confidence \in TurnConfidences}

\* the turns of the session of the last call, after the call
TurnsAfter == buffer.buf.sessions[buffer.last.session_id]

\* the session holds all its turns and the added one when they are no more
\* than max_turns, and else the last floor(max_turns / 2) of them, in order
CutToHalf(before, turn, after, max_turns) ==
    after = IF Len(before) + 1 > max_turns
            THEN LastTurns(Append(before, turn), max_turns \div 2)
            ELSE Append(before, turn)

\* C38 as stated: when adding a turn makes a session exceed
\* max_turns_per_session, the session is cut to exactly its most recent
\* floor(max_turns_per_session / 2) turns, in their original order; an
\* addition that does not exceed the limit removes nothing.
C38_CutToHalfOfMaxTurns ==
    AddedTurn =>
        \E turn \in AddableTurns :
            CutToHalf(TurnsBefore, turn, TurnsAfter,
                      buffer.buf.max_turns_per_session)

\* C38 for max_turns_per_session >= 2, where the half is not empty
C38_CutToHalfOfMaxTurnsFromTwo ==
    buffer.buf.max_turns_per_session >= 2 => C38_CutToHalfOfMaxTurns

\* C38: with max_turns_per_session = 1 the turn added to a session of one
\* turn exceeds the limit, and the session keeps both turns
C38_NotCut ==
    /\ AddedTurn
    /\ buffer.buf.max_turns_per_session = 1
    /\ Len(TurnsBefore) = 1
    /\ \E turn \in AddableTurns : TurnsAfter = Append(TurnsBefore, turn)

\* C38: with max_turns_per_session = 5 the sixth turn of a session is
\* added and the session is cut to its last two turns, which differ
C38_CutToTwo ==
    /\ AddedTurn
    /\ buffer.buf.max_turns_per_session = 5
    /\ Len(TurnsBefore) = 5
    /\ Len(TurnsAfter) = 2
    /\ TurnsAfter[1] = TurnsBefore[5]
    /\ TurnsAfter[1] # TurnsAfter[2]

----------------------------------------------------------------------------
(* Properties of the fallback flag of LLMSynthesizer.synthesize.           *)

\* text produced by the provider: the text members of the first documents
\* of the body put together, as they are or stripped
ProviderTexts(reply) ==
    UNION {{JoinTokens(SubSeq(reply.body, 1, n)),
            Strip(JoinTokens(SubSeq(reply.body, 1, n)))} :
           n \in 0..Len(reply.body)}

\* synthesize returned a result with success true and fallback false
SucceededWithoutFallback ==
    /\ fluency.pc = "done"
    /\ ~fluency.outcome.raised
    /\ fluency.outcome.value[1].success
    /\ ~fluency.outcome.value[1].fallback

\* C39 as stated: a result of synthesize with success = true and fallback
\* = false carries text produced by the configured provider, for every
\* provider and also when the provider's response is empty or very short;
\* so a result in which raw_facts stands for the provider's output has
\* fallback = true.
C39_UnflaggedIsProviderText ==
    SucceededWithoutFallback =>
        fluency.outcome.value[1].natural_answer
            \in ProviderTexts(fluency.reply)

\* C39 without the plain (not streamed) Ollama call
C39_UnflaggedIsProviderTextButPlainOllama ==
    ~(fluency.pc = "done" /\ fluency.config.provider = "ollama"
      /\ ~fluency.config.stream)
        => C39_UnflaggedIsProviderText

\* C39: Ollama, not streamed, answered with a text of nine characters, and
\* synthesize returned raw_facts with success true and fallback false
C39_ShortOllamaAnswer ==
    /\ SucceededWithoutFallback
    /\ fluency.config.provider = "ollama"
    /\ ~fluency.config.stream
    /\ fluency.reply.status = 200
    /\ Len(fluency.reply.body) = 1
    /\ fluency.reply.body[1].json
    /\ fluency.reply.body[1].text # << >>
    /\ Len(Strip(fluency.reply.body[1].text[1])) = MinGenerated - 1
    /\ fluency.raw_facts # << >>
    /\ fluency.outcome.value[1].natural_answer = fluency.raw_facts
    /\ fluency.outcome.value[1].provider = "ollama"

\* C39: a provider that answered with its text, and the result carries it
C39_ProviderText ==
    /\ SucceededWithoutFallback
    /\ fluency.config.provider = "anthropic"
    /\ fluency.raw_facts # << >>
    /\ Len(fluency.outcome.value[1].natural_answer) >= MinGenerated

----------------------------------------------------------------------------
(* The access order of a ConversationBuffer.                               *)

\* the ids the last call took from the front of the access order to make
\* room
EvictedIds ==
    IF buffer.last.op = "delete_session" THEN {}
    ELSE OrderIds(buffer.last.before.access_order)
             \ OrderIds(buffer.buf.access_order)

\* C40: in every reachable state of a ConversationBuffer the access order
\* holds each existing session id exactly once and no id of a session
\* that does not exist, so every eviction removes an existing session.
C40_AccessOrderIsTheSessions ==
    /\ OrderIds(buffer.buf.access_order) = SessionsAfter
    /\ Len(buffer.buf.access_order) = Cardinality(SessionsAfter)
    /\ buffer.last.op # "delete_session" =>
           /\ EvictedIds \subseteq SessionsBefore
           /\ EvictedIds = SessionsBefore \ SessionsAfter

\* C40 witness: a session that was accessed again in the third call and a
\* session made in the fourth, after an eviction, are the two sessions of
\* a full buffer, each once in the access order
C40_Witness ==
    /\ buffer.buf.max_sessions = 2
    /\ EvictedIds # {}
    /\ Len(buffer.buf.access_order) = 2
    /\ buffer.buf.access_order[2] = buffer.last.session_id
    /\ buffer.last.accessed[buffer.buf.access_order[1]] = 3
    /\ SessionsAfter = OrderIds(buffer.buf.access_order)

====
